---- MODULE Spec2Model ----
(***************************************************************************)
(* A model of nesbyte/loadr: the template units with their contexts and    *)
(* the process-wide registry (template.go, core/templ.go), and the live     *)
(* reload engine: RunLiveReload, the watcher loop with its debounce timer,  *)
(* the broadcaster and the streaming endpoint (template.go, package         *)
(* livereload).                                                             *)
(*                                                                          *)
(* The specifications share the variables.  WatchSpec runs the watcher     *)
(* loop and its timers; LiveSpec adds the subscribers of the streaming     *)
(* endpoint; LoadSpec puts single units through Load; RegistrySpec loads   *)
(* the registered units in bulk; RenderSpec renders units to healthy and   *)
(* failing sinks in production and in live mode; BaseDataSpec renders      *)
(* pages while the base data is replaced; ReloadSpec renders while files   *)
(* are edited; ConstructSpec builds units between loads and renders;       *)
(* SignalSpec runs the interrupt goroutine statement by statement;         *)
(* ShutdownSpec runs the watcher and the subscribers under fairness;      *)
(* RaceSpec runs two goroutines through a live Render step by step;       *)
(* FlagSpec calls RunLiveReload with every outcome between renders.       *)
(***************************************************************************)
EXTENDS Integers, Sequences, FiniteSets, TLC

(***************************************************************************)
(* Bounds of the model.                                                    *)
(***************************************************************************)
MaxEvents == 3      \* events and errors delivered to the watcher (WatchSpec)
MaxFrames == 2      \* events and errors delivered to the watcher (LiveSpec)
MaxRunCalls == 2    \* calls of RunLiveReload
MaxCtx == 2         \* template contexts created
MaxUnits == 2       \* template units constructed
MaxLoadUnits == 1   \* template units constructed in LoadSpec and RenderSpec
MaxSignals == 2     \* interrupt signals sent to the process (SignalSpec)

(***************************************************************************)
(* Program constants.                                                      *)
(***************************************************************************)
BatchDelay == 100   \* batchDelay = 100 * time.Millisecond
ChanCap == 1        \* make(clientChan, 1)

\* The amounts (ms) by which the clock advances in one step.
TickSteps == {40, 60}

Min(a, b) == IF a < b THEN a ELSE b
Max(a, b) == IF a < b THEN b ELSE a

(***************************************************************************)
(* Strings the code slices by byte are sequences of one-character strings. *)
(***************************************************************************)
goType == <<".", "g", "o">>

\* s[lo:hi] for 0 <= lo <= hi <= len(s), Go's slice expression
Slice(s, lo, hi) == SubSeq(s, lo + 1, hi)

\* The directory RunLiveReload is given to watch.
RootDir == <<".">>                       \* ., the working directory

\* Paths a filesystem event can name.
GoFile == <<"m", ".", "g", "o">>         \* m.go
HtmlFile == <<"i", ".", "h", "t">>       \* i.ht, a template file
ViewDir == <<"v", "i", "e", "w">>        \* view, a directory made later
DotDir == <<".", "g", "i", "t">>         \* .git, a dot directory
ShortFile == <<"a">>                     \* a, a file with a one-letter name

\* Directories on disk below a directory (filepath.WalkDir visits them).
DirsBelow(name) ==
  IF name = RootDir THEN { <<"t", "p", "l">> }
  ELSE IF name = ViewDir THEN { ViewDir \o <<"/", "p">> }
  ELSE {}

\* fsnotify.Event, with the answer os.Stat will give for its name
\* ("err", "file" or "dir"; only a Create event is stat'ed)
Event(name, op, stat) == [name |-> name, op |-> op, stat |-> stat]
Events ==
  { Event(GoFile, "Write", "file"),
    Event(HtmlFile, "Write", "file"),
    Event(HtmlFile, "Create", "file"),
    Event(HtmlFile, "Create", "err"),
    Event(ViewDir, "Create", "dir"),
    Event(DotDir, "Create", "dir"),
    Event(ShortFile, "Write", "file") }
NoEvent == Event(<<>>, "none", "err")    \* fsnotify.Event{}

\* frames of the event stream
MsgReload == "data: reload"
MsgRunning == "data: live server is running"
MsgError == "data: live reload error"

Clients == {"A", "B"}
Workers == {"w1", "w2"}                  \* goroutines that call Render
\* the handlePattern and handleReload arguments of a RunLiveReload call
RunArgs == { <<"/live", "nil">>, <<"/ev", "user">> }
RunFailures == {"none", "script", "watcher", "walk"}
RootPaths == { RootDir }

VARIABLES
  \* ---- package livereload
  liveServerStarted,    \* liveServerStarted
  customReloadHandler,  \* customReloadHandler: "unset", "default", "user"
  clientsRegister,      \* the set of registered client channels
  chan,                 \* the buffer of each client's channel
  runRet,               \* what the last RunLiveReload call returned
  runCalls,             \* calls of RunLiveReload so far
  ctxDone,              \* the watcher context is cancelled
  notify,               \* signal.Notify(c, os.Interrupt) is in effect
  sigq,                 \* the signals buffered in c
  spc,                  \* the interrupt goroutine: 0 none, k at InterruptBody[k]
  signals,              \* interrupt signals sent to the process so far
  defaulted,            \* interrupts that reached the default handler
  sigLast,              \* the last interrupt delivered: [from, to]
  wpc,                  \* runWatcher: "none", "run", "err", "done", "panic"
  watched,              \* the directories the fsnotify watcher watches
  timers,               \* armed timers: records [id, ev, left]
  batchTimer,           \* runWatcher's batchTimer: a timer id, 0 for nil
  running,              \* fired callbacks between handleChange and broadcast
  nEvents,              \* events and errors delivered to the loop
  elapsed,              \* ms since the loop last reset the timer
  inEv,                 \* the event the loop received last
  lastEv,               \* the event that reset the timer last
  seenEv,               \* the last event the loop did not ignore
  seenElapsed,          \* ms since the loop last took an event it did not ignore
  seenBursts,           \* events not ignored that came BatchDelay after the last
  bursts,               \* timer resets that came BatchDelay after the last
  burstLen,             \* timer resets since the last such reset, itself counted
  fired,                \* handleChange(event, nil) calls by timers
  reloads,              \* "data: reload" broadcasts
  hLast,                \* the last handleChange call: [ev, err, latest]
  bLast,                \* the last broadcast: [msg, skipped, n]
  epc,                  \* each endpoint handler's position
  recv,                 \* the frames each client has received
  \* ---- package registry
  liveReload,           \* registry.LiveReload()
  jsToInject,           \* registry.JSToInject()
  registry,             \* the registered units, in the order of registry.Add
  \* ---- the templates
  cells,                \* the base data cells: what each *T points to
  ctxs,                 \* the TemplateContexts created
  units,                \* the Template and SubTemplate values constructed
  fs,                   \* the state of the virtual filesystem
  last,                 \* the last call on the template side and its result
  workers               \* the goroutines in a live Render: [pc, unit, d, own, ran]

sigvars == <<notify, sigq, spc, signals, defaulted, sigLast>>
runvars == <<liveServerStarted, customReloadHandler, runRet, runCalls,
             sigvars>>
ghostvars == <<elapsed, inEv, lastEv, seenEv, seenElapsed, seenBursts, bursts,
               burstLen>>
watchvars == <<wpc, watched, timers, batchTimer, running, nEvents, ghostvars,
               fired, reloads>>
obsvars == <<hLast, bLast>>
clientvars == <<clientsRegister, chan, epc, recv>>
livevars == <<runvars, ctxDone, watchvars, obsvars, clientvars>>
regvars == <<liveReload, jsToInject, workers>>
tplvars == <<registry, cells, ctxs, units, fs, last>>
vars == <<livevars, regvars, tplvars>>

----------------------------------------------------------------------------
(***************************************************************************)
(* package livereload: broadcast                                           *)
(***************************************************************************)

\* a send into a buffer without bound
trySendQueued(q, msg) == Append(q, msg)

\* select { case ch <- msg: default: } on a channel with buffer q
trySend(q, msg) == IF Len(q) < ChanCap THEN Append(q, msg) ELSE q

\* the send blocks instead of falling to default: nothing is sent while a
\* registered channel is full
broadcastAwaitsFull(chs, reg, msg) ==
  IF \E c \in reg : Len(chs[c]) >= ChanCap THEN chs
  ELSE [c \in DOMAIN chs |-> IF c \in reg THEN Append(chs[c], msg) ELSE chs[c]]

\* broadcast(msg): under clientsMu, one non-blocking send per registered
\* channel.  The mutex makes the loop atomic with respect to subscribe,
\* unsubscribe and other broadcasts, and a receive can only empty a channel.
broadcast(chs, reg, msg) ==
  [c \in DOMAIN chs |-> IF c \in reg THEN trySend(chs[c], msg) ELSE chs[c]]

\* the record of a broadcast: the message and the channels it skipped
BroadcastRecord(msg) ==
  [msg |-> msg,
   skipped |-> {c \in clientsRegister : Len(chan[c]) >= ChanCap},
   n |-> bLast.n + 1]

\* customReloadHandler(e, err), observed
\* with whether ev is the event that reset the timer last (latest) and whether
\* it is the last event the loop did not ignore (seen)
HandlerCall(ev, err, seen) ==
  [ev |-> ev, err |-> err, latest |-> ev = lastEv, seen |-> ev = seen]

NoCall == [ev |-> NoEvent, err |-> "none", latest |-> TRUE, seen |-> TRUE]
NilRet == [err |-> "none", handler |-> FALSE]

\* the script liveReloader.html renders for a handle pattern
Script(handlePattern) == <<"script", handlePattern>>
NoScript == <<>>

Alive == wpc # "panic"     \* no goroutine has panicked

----------------------------------------------------------------------------
(***************************************************************************)
(* package livereload: RunLiveReload                                       *)
(***************************************************************************)

\* watcher.Add on the paths themselves, without the walk
addPathsOnly(paths) == paths

\* walkDirsAndAddPaths(watcher, paths): every directory below each path
walkDirsAndAddPaths(paths) ==
  paths \cup UNION {DirsBelow(p) : p \in paths}

\* the call that finds liveServerStarted set
RunRejected ==
  /\ runRet' = [err |-> "already running", handler |-> FALSE]
  /\ UNCHANGED <<liveServerStarted, customReloadHandler, sigvars, ctxDone,
                 watchvars, obsvars, clientvars, regvars, tplvars>>

\* the body of RunLiveReload giving liveServerStarted back when a step fails
RunStartsOrGivesBack(handlePattern, handleReload, paths, fail) ==
  /\ liveServerStarted' = (fail = "none")
  /\ customReloadHandler' = IF handleReload = "nil" THEN "default" ELSE "user"
  /\ jsToInject' = IF fail = "script" THEN jsToInject ELSE Script(handlePattern)
  /\ IF fail = "none"
     THEN /\ watched' = walkDirsAndAddPaths(paths)
          /\ notify' = TRUE
          /\ spc' = 1
          /\ wpc' = "run"
          /\ liveReload' = TRUE
          /\ runRet' = [err |-> "none", handler |-> TRUE]
     ELSE /\ runRet' = [err |-> fail, handler |-> FALSE]
          /\ UNCHANGED <<watched, notify, spc, wpc, liveReload>>
  /\ UNCHANGED <<sigq, signals, defaulted, sigLast, ctxDone, timers,
                 batchTimer, running, nEvents, ghostvars, fired, reloads,
                 obsvars, clientvars, tplvars, workers>>

\* the body of RunLiveReload with registry.SetLiveReload(true) as its first
\* statement instead of its last
RunStartsFlagFirst(handlePattern, handleReload, paths, fail) ==
  /\ liveServerStarted' = TRUE
  /\ liveReload' = TRUE
  /\ customReloadHandler' = IF handleReload = "nil" THEN "default" ELSE "user"
  /\ jsToInject' = IF fail = "script" THEN jsToInject ELSE Script(handlePattern)
  /\ IF fail = "none"
     THEN /\ watched' = walkDirsAndAddPaths(paths)
          /\ notify' = TRUE
          /\ spc' = 1
          /\ wpc' = "run"
          /\ runRet' = [err |-> "none", handler |-> TRUE]
     ELSE /\ runRet' = [err |-> fail, handler |-> FALSE]
          /\ UNCHANGED <<watched, notify, spc, wpc>>
  /\ UNCHANGED <<sigq, signals, defaulted, sigLast, ctxDone, timers,
                 batchTimer, running, nEvents, ghostvars, fired, reloads,
                 obsvars, clientvars, tplvars, workers>>

\* the body of RunLiveReload after the liveServerStarted test; fail names the
\* step that returns an error
RunStarts(handlePattern, handleReload, paths, fail) ==
  /\ liveServerStarted' = TRUE
  /\ customReloadHandler' = IF handleReload = "nil" THEN "default" ELSE "user"
  /\ jsToInject' = IF fail = "script" THEN jsToInject ELSE Script(handlePattern)
  /\ IF fail = "none"
     THEN /\ watched' = walkDirsAndAddPaths(paths)
          /\ notify' = TRUE
          /\ spc' = 1
          /\ wpc' = "run"
          /\ liveReload' = TRUE
          /\ runRet' = [err |-> "none", handler |-> TRUE]
     ELSE /\ runRet' = [err |-> fail, handler |-> FALSE]
          /\ UNCHANGED <<watched, notify, spc, wpc, liveReload>>
  /\ UNCHANGED <<sigq, signals, defaulted, sigLast, ctxDone, timers,
                 batchTimer, running, nEvents, ghostvars, fired, reloads,
                 obsvars, clientvars, tplvars, workers>>

\* RunLiveReload without the liveServerStarted test
RunLiveReloadAgain(handlePattern, handleReload, paths, fail) ==
  /\ Alive
  /\ runCalls < MaxRunCalls
  /\ runCalls' = runCalls + 1
  /\ RunStarts(handlePattern, handleReload, paths, fail)

RunLiveReload(handlePattern, handleReload, paths, fail) ==
  /\ Alive
  /\ runCalls < MaxRunCalls
  /\ runCalls' = runCalls + 1
  /\ IF liveServerStarted
     THEN RunRejected
     ELSE RunStarts(handlePattern, handleReload, paths, fail)

\* the handler RunLiveReload returned is being served
Serving == wpc # "none"

\* the fate of an interrupt delivered to the process: into c while Notify
\* is in effect and c has room, dropped while c is full, to the default
\* handler otherwise
Delivered(from) ==
  [from |-> from,
   to |-> IF ~notify THEN "default" ELSE IF sigq < 1 THEN "chan" ELSE "dropped"]
NoSignal == [from |-> "none", to |-> "none"]

\* the goroutine's statements in an order that sends the signal on first
InterruptBodySignalFirst ==
  <<"receive", "Signal", "cancel", "Stop", "close", "Reset">>

\* the interrupt goroutine: sig := <-c; cancel(); signal.Stop(c); close(c);
\* signal.Reset(os.Interrupt); p.Signal(sig)
InterruptBody == <<"receive", "cancel", "Stop", "close", "Reset", "Signal">>

\* the goroutine has returned
InterruptDone == Len(InterruptBody) + 1

\* an interrupt is sent to the process from outside
Signal ==
  /\ Alive
  /\ signals < MaxSignals
  /\ signals' = signals + 1
  /\ sigLast' = Delivered("os")
  /\ sigq' = IF Delivered("os").to = "chan" THEN sigq + 1 ELSE sigq
  /\ defaulted' = IF Delivered("os").to = "default"
                  THEN defaulted + 1 ELSE defaulted
  /\ UNCHANGED <<liveServerStarted, customReloadHandler, runRet, runCalls,
                 notify, spc, ctxDone, watchvars, obsvars, clientvars,
                 regvars, tplvars>>

\* the interrupt goroutine executes its next statement
SigStep ==
  /\ Alive
  /\ spc \in 1..Len(InterruptBody)
  /\ InterruptBody[spc] = "receive" => sigq > 0
  /\ spc' = spc + 1
  /\ ctxDone' = (ctxDone \/ InterruptBody[spc] = "cancel")
  /\ notify' = (notify /\ InterruptBody[spc] \notin {"Stop", "Reset"})
  /\ sigq' = CASE InterruptBody[spc] = "receive" -> sigq - 1
               [] InterruptBody[spc] = "close" -> 0
               [] InterruptBody[spc] = "Signal"
                  /\ Delivered("self").to = "chan" -> sigq + 1
               [] OTHER -> sigq
  /\ sigLast' = IF InterruptBody[spc] = "Signal" THEN Delivered("self")
                ELSE sigLast
  /\ defaulted' = IF InterruptBody[spc] = "Signal"
                     /\ Delivered("self").to = "default"
                  THEN defaulted + 1 ELSE defaulted
  /\ UNCHANGED <<liveServerStarted, customReloadHandler, runRet, runCalls,
                 signals, watchvars, obsvars, clientvars, regvars, tplvars>>

\* an interrupt arrives and the interrupt goroutine runs to its end before
\* any other goroutine takes a step
Interrupt ==
  /\ Alive
  /\ Serving
  /\ ~ctxDone
  /\ spc = 1
  /\ ctxDone' = TRUE
  /\ notify' = FALSE
  /\ spc' = InterruptDone
  /\ sigLast' = [from |-> "self", to |-> "default"]
  /\ defaulted' = defaulted + 1
  /\ UNCHANGED <<liveServerStarted, customReloadHandler, runRet, runCalls,
                 sigq, signals, watchvars, obsvars, clientvars, regvars,
                 tplvars>>

----------------------------------------------------------------------------
(***************************************************************************)
(* package livereload: runWatcher                                          *)
(***************************************************************************)

\* event.Name[eventNameLength-len(goType):eventNameLength] is out of range
\* for a name shorter than goType: the slice expression panics
SuffixPanics(name) == Len(name) > 0 /\ Len(name) < Len(goType)

\* (eventNameLength > 0) && (event.Name[...] == goType)
IsGoFile(name) ==
  /\ Len(name) > 0
  /\ Slice(name, Len(name) - Len(goType), Len(name)) = goType

\* fi.IsDir() && len(fi.Name()) != 0, and the name is no dotfile
AddsDir(e) ==
  /\ e.op = "Create"
  /\ e.stat = "dir"
  /\ Len(e.name) > 0
  /\ e.name[1] # "."

\* Stop is not called: the timer armed before stays armed
StopForgotten(ts, id) == ts

\* batchTimer.Stop(): the timer, if still armed, never fires
Stop(ts, id) == {t \in ts : t.id # id}

\* no timer is armed for the creation of a directory
AfterFuncUnlessDir(ts, id, e) ==
  IF e.op = "Create" /\ e.stat = "dir" THEN ts
  ELSE ts \cup {[id |-> id, ev |-> e, left |-> BatchDelay]}

\* time.AfterFunc(batchDelay, func() {...}) closing over event
AfterFunc(ts, id, e) == ts \cup {[id |-> id, ev |-> e, left |-> BatchDelay]}

\* no armed timer is due: a due timer's callback starts before the loop
\* takes another event and before the clock moves on
NoneDue == \A t \in timers : t.left > 0

\* case <-ctx.Done(): return, with the deferred watcher.Close()
WatcherCancelled ==
  /\ wpc = "run"
  /\ ctxDone
  /\ wpc' = "done"
  /\ UNCHANGED <<runvars, ctxDone, watched, timers, batchTimer, running,
                 nEvents, ghostvars, fired, reloads, obsvars, clientvars,
                 regvars, tplvars>>

\* case event, ok := <-watcher.Events with !ok, or the same on Errors
WatcherStreamClosed ==
  /\ wpc = "run"
  /\ wpc' = "done"
  /\ UNCHANGED <<runvars, ctxDone, watched, timers, batchTimer, running,
                 nEvents, ghostvars, fired, reloads, obsvars, clientvars,
                 regvars, tplvars>>

\* case event, ok := <-watcher.Events: one iteration of the loop
WatcherEvent(e) ==
  /\ wpc = "run"
  /\ NoneDue
  /\ nEvents' = nEvents + 1
  /\ inEv' = e
  /\ IF SuffixPanics(e.name)
     THEN \* the slice expression panics: the process dies
          /\ wpc' = "panic"
          /\ UNCHANGED <<watched, timers, batchTimer, elapsed, lastEv, seenEv,
                         seenElapsed, seenBursts, bursts, burstLen, hLast>>
     ELSE IF IsGoFile(e.name)
     THEN \* continue
          UNCHANGED <<wpc, watched, timers, batchTimer, elapsed, lastEv,
                      seenEv, seenElapsed, seenBursts, bursts, burstLen,
                      hLast>>
     ELSE /\ seenEv' = e
          /\ seenElapsed' = 0
          /\ seenBursts' = IF seenElapsed >= BatchDelay
                           THEN seenBursts + 1 ELSE seenBursts
          /\ IF e.op = "Create" /\ e.stat = "err"
             THEN \* handleChange(fsnotify.Event{}, err); continue
                  /\ hLast' = HandlerCall(NoEvent, "stat", e)
                  /\ UNCHANGED <<wpc, watched, timers, batchTimer, elapsed,
                                 lastEv, bursts, burstLen>>
             ELSE /\ watched' = IF AddsDir(e)
                                THEN watched \cup walkDirsAndAddPaths({e.name})
                                ELSE watched
                  /\ timers' = AfterFunc(Stop(timers, batchTimer),
                                         nEvents + 1, e)
                  /\ batchTimer' = nEvents + 1
                  /\ elapsed' = 0
                  /\ lastEv' = e
                  /\ bursts' = IF elapsed >= BatchDelay
                               THEN bursts + 1 ELSE bursts
                  /\ burstLen' = IF elapsed >= BatchDelay
                                 THEN 1 ELSE burstLen + 1
                  /\ UNCHANGED <<wpc, hLast>>
  /\ UNCHANGED <<runvars, ctxDone, running, fired, reloads, bLast, clientvars,
                 regvars, tplvars>>

\* case err, ok := <-watcher.Errors: handleChange, then the error frame,
\* with no step of another goroutine in between
WatcherError ==
  /\ wpc = "run"
  /\ nEvents' = nEvents + 1
  /\ hLast' = HandlerCall(NoEvent, "watcher", seenEv)
  /\ bLast' = BroadcastRecord(MsgError)
  /\ chan' = broadcast(chan, clientsRegister, MsgError)
  /\ UNCHANGED <<runvars, ctxDone, wpc, watched, timers, batchTimer, running,
                 ghostvars, fired, reloads, clientsRegister, epc, recv,
                 regvars, tplvars>>

\* an error case that stops the armed timer
WatcherErrorStopsTimer ==
  /\ wpc = "run"
  /\ wpc' = "err"
  /\ nEvents' = nEvents + 1
  /\ hLast' = HandlerCall(NoEvent, "watcher", seenEv)
  /\ timers' = Stop(timers, batchTimer)
  /\ UNCHANGED <<runvars, ctxDone, watched, batchTimer, running, ghostvars,
                 fired, reloads, bLast, clientvars, regvars, tplvars>>

\* case err, ok := <-watcher.Errors, up to the return of the handler:
\* handleChange(fsnotify.Event{}, err)
WatcherErrorCall ==
  /\ wpc = "run"
  /\ wpc' = "err"
  /\ nEvents' = nEvents + 1
  /\ hLast' = HandlerCall(NoEvent, "watcher", seenEv)
  /\ UNCHANGED <<runvars, ctxDone, watched, timers, batchTimer, running,
                 ghostvars, fired, reloads, bLast, clientvars, regvars,
                 tplvars>>

\* the error case goes on: broadcast(fmt.Sprintf("data: live reload error:
\* %s\n\n", err.Error())), and the loop selects again
WatcherErrorBroadcast ==
  /\ wpc = "err"
  /\ wpc' = "run"
  /\ bLast' = BroadcastRecord(MsgError)
  /\ chan' = broadcast(chan, clientsRegister, MsgError)
  /\ UNCHANGED <<runvars, ctxDone, watched, timers, batchTimer, running,
                 nEvents, ghostvars, fired, reloads, hLast, clientsRegister,
                 epc, recv, regvars, tplvars>>

\* the clock advances by d ms
Tick(d) ==
  /\ Alive
  /\ NoneDue
  /\ timers # {} \/ elapsed < BatchDelay \/ seenElapsed < BatchDelay
  /\ timers' = {[t EXCEPT !.left = Max(0, t.left - d)] : t \in timers}
  /\ elapsed' = Min(BatchDelay, elapsed + d)
  /\ seenElapsed' = Min(BatchDelay, seenElapsed + d)
  /\ UNCHANGED <<runvars, ctxDone, wpc, watched, batchTimer, running, nEvents,
                 inEv, lastEv, seenEv, seenBursts, bursts, burstLen, fired,
                 reloads, obsvars, clientvars, regvars, tplvars>>

\* the timer's goroutine starts the callback: handleChange(event, nil)
TimerFires(t) ==
  /\ Alive
  /\ t \in timers
  /\ t.left = 0
  /\ timers' = timers \ {t}
  /\ running' = running \cup {t.id}
  /\ fired' = fired + 1
  /\ hLast' = HandlerCall(t.ev, "none", seenEv)
  /\ UNCHANGED <<runvars, ctxDone, wpc, watched, batchTimer, nEvents,
                 ghostvars, reloads, bLast, clientvars, regvars, tplvars>>

\* the callback goes on: broadcast("data: reload\n\n")
TimerBroadcasts(id) ==
  /\ Alive
  /\ id \in running
  /\ running' = running \ {id}
  /\ reloads' = reloads + 1
  /\ bLast' = BroadcastRecord(MsgReload)
  /\ chan' = broadcast(chan, clientsRegister, MsgReload)
  /\ UNCHANGED <<runvars, ctxDone, wpc, watched, timers, batchTimer, nEvents,
                 ghostvars, fired, hLast, clientsRegister, epc, recv,
                 regvars, tplvars>>

----------------------------------------------------------------------------
(***************************************************************************)
(* package livereload: the handler RunLiveReload returns, once per client  *)
(***************************************************************************)

\* broadcastChannel := make(clientChan, 1); clientsRegister[ch] = struct{}{}
Subscribe(c) ==
  /\ Alive
  /\ Serving
  /\ epc[c] = "idle"
  /\ epc' = [epc EXCEPT ![c] = "subscribed"]
  /\ clientsRegister' = clientsRegister \cup {c}
  /\ UNCHANGED <<runvars, ctxDone, watchvars, obsvars, chan, recv, regvars, tplvars>>

\* the first write with a channel that is made only now
WriteRunningFresh(c) ==
  /\ Alive
  /\ epc[c] = "subscribed"
  /\ epc' = [epc EXCEPT ![c] = "loop"]
  /\ recv' = [recv EXCEPT ![c] = Append(@, MsgRunning)]
  /\ chan' = [chan EXCEPT ![c] = <<>>]
  /\ UNCHANGED <<runvars, ctxDone, watchvars, obsvars, clientsRegister,
                 regvars, tplvars>>

\* w.Write([]byte("data: live server is running\n\n"))
WriteRunning(c) ==
  /\ Alive
  /\ epc[c] = "subscribed"
  /\ epc' = [epc EXCEPT ![c] = "loop"]
  /\ recv' = [recv EXCEPT ![c] = Append(@, MsgRunning)]
  /\ UNCHANGED <<runvars, ctxDone, watchvars, obsvars, clientsRegister, chan,
                 regvars, tplvars>>

\* case msg := <-broadcastChannel: w.Write([]byte(msg))
Forward(c) ==
  /\ Alive
  /\ epc[c] = "loop"
  /\ chan[c] # <<>>
  /\ recv' = [recv EXCEPT ![c] = Append(@, Head(chan[c]))]
  /\ chan' = [chan EXCEPT ![c] = Tail(@)]
  /\ UNCHANGED <<runvars, ctxDone, watchvars, obsvars, clientsRegister, epc,
                 regvars, tplvars>>

\* the return on a client's disconnect leaves the handler without running
\* the deferred function
ClientGoneNoDefer(c) ==
  /\ Alive
  /\ epc[c] = "loop"
  /\ epc' = [epc EXCEPT ![c] = "done"]
  /\ UNCHANGED <<runvars, ctxDone, watchvars, obsvars, clientsRegister, chan,
                 recv, regvars, tplvars>>

\* case <-r.Context().Done(): return
ClientGone(c) ==
  /\ Alive
  /\ epc[c] = "loop"
  /\ epc' = [epc EXCEPT ![c] = "return"]
  /\ UNCHANGED <<runvars, ctxDone, watchvars, obsvars, clientsRegister, chan,
                 recv, regvars, tplvars>>

\* a loop that does not select on the shared context
ShutdownIgnored(c) ==
  /\ FALSE
  /\ UNCHANGED vars

\* case <-ctx.Done(): return
ShutdownSeen(c) ==
  /\ Alive
  /\ epc[c] = "loop"
  /\ ctxDone
  /\ epc' = [epc EXCEPT ![c] = "return"]
  /\ UNCHANGED <<runvars, ctxDone, watchvars, obsvars, clientsRegister, chan,
                 recv, regvars, tplvars>>

\* the deferred delete(clientsRegister, broadcastChannel)
Unsubscribe(c) ==
  /\ Alive
  /\ epc[c] = "return"
  /\ epc' = [epc EXCEPT ![c] = "done"]
  /\ clientsRegister' = clientsRegister \ {c}
  /\ UNCHANGED <<runvars, ctxDone, watchvars, obsvars, chan, recv, regvars, tplvars>>

----------------------------------------------------------------------------
(***************************************************************************)
(* The template engine and the virtual filesystem (html/template, fs.FS):  *)
(* what Load and Render use of them.  A pattern is a path, a sequence of   *)
(* path elements; a template body is a sequence of nodes; a data value is  *)
(* a function from the field paths it has to what they print.              *)
(***************************************************************************)
Text(cs) == [k |-> "text", cs |-> cs, p |-> <<>>, n |-> ""]       \* text
Field(p) == [k |-> "field", cs |-> <<>>, p |-> p, n |-> ""]       \* {{.p}}
Call(n, p) == [k |-> "call", cs |-> <<>>, p |-> p, n |-> n]       \* {{template n .p}}

\* the patterns of the model
PIn == <<"views", "in">>        \* a page in a folder: views/in
POne == <<"p1">>                \* a partial
PTwo == <<"p2">>                \* another partial
PMissing == <<"gone">>          \* a pattern that matches no file

\* filepath.Base(pattern): the last path element
Base(pattern) == IF Len(pattern) = 0 THEN "." ELSE pattern[Len(pattern)]

NoDefs == [n \in {} |-> <<>>]

\* the states of the filesystem: the files as shipped, the page edited (a
\* temperature in kelvin put at its top), the page saved with a syntax error
FsVersions == {"shipped", "edited", "broken"}

\* the three bytes of U+212A KELVIN SIGN in UTF-8
KelvinSign == <<"K1", "K2", "K3">>

\* the file a pattern matches: whether it parses and the templates it defines
\* (the one named after the file, and its {{define}} blocks)
File(ver, pattern) ==
  CASE pattern = PIn ->
         [ok |-> ver # "broken",
          defs |-> [n \in {"in"} |->
                      IF ver = "edited"
                      THEN <<Text(KelvinSign), Field(<<"B", "Title">>),
                             Call("partial", <<"D">>), Text(<<"</BODY>">>)>>
                      ELSE <<Field(<<"B", "Title">>),
                             Call("partial", <<"D">>), Text(<<"</BODY>">>)>>]]
    [] pattern = POne ->
         [ok |-> TRUE,
          defs |-> [n \in {"p1", "partial"} |->
                      IF n = "p1" THEN <<>>
                      ELSE <<Text(<<"1">>), Field(<<"Sample">>)>>]]
    [] pattern = PTwo ->
         [ok |-> TRUE,
          defs |-> [n \in {"p2", "partial"} |->
                      IF n = "p2" THEN <<>>
                      ELSE <<Text(<<"2">>), Field(<<"Sample2">>)>>]]
    [] OTHER -> [ok |-> FALSE, defs |-> NoDefs]

Matches(pattern) == pattern \in {PIn, POne, PTwo}

\* a parsed *template.Template: the namespace name -> body; nil has ok FALSE
NilEngine == [ok |-> FALSE, tpl |-> NoDefs]

\* template.New("").Funcs(...).ParseFS(fs, patterns...): every pattern must
\* match a file and every file must parse; a later file's definition of a
\* name replaces an earlier one.  On failure the result is nil.
ParseFS(ver, patterns) ==
  IF \E i \in 1..Len(patterns) :
       ~Matches(patterns[i]) \/ ~File(ver, patterns[i]).ok
  THEN NilEngine
  ELSE LET names == UNION {DOMAIN File(ver, patterns[i]).defs :
                             i \in 1..Len(patterns)}
           lastDef(n) == CHOOSE i \in 1..Len(patterns) :
                        /\ n \in DOMAIN File(ver, patterns[i]).defs
                        /\ \A j \in (i + 1)..Len(patterns) :
                             n \notin DOMAIN File(ver, patterns[j]).defs
       IN [ok |-> TRUE,
           tpl |-> [n \in names |-> File(ver, patterns[lastDef(n)]).defs[n]]]

\* data values
Scalar(v) == (<<>> :> v)
WithField(f, v) == (<<>> :> v) @@ (<<f>> :> v)
NoData == Scalar("0")                       \* loadr.NoData
Partial1(v) == WithField("Sample", v)       \* struct{ Sample string }
Partial2(v) == WithField("Sample2", v)      \* struct{ Sample2 string }
TitleData(v) == WithField("Title", v)       \* struct{ Title ... }

\* BaseData[T, U]{B: b, D: d}
BaseData(b, d) ==
  [p \in {<<"B">> \o q : q \in DOMAIN b} \cup {<<"D">> \o q : q \in DOMAIN d}
     |-> IF p[1] = "B" THEN b[Tail(p)] ELSE d[Tail(p)]]

\* the value at a path of a data value
Sub(data, path) ==
  [q \in {q \in {SubSeq(p, Len(path) + 1, Len(p)) :
                   p \in {r \in DOMAIN data : Len(r) >= Len(path)}} :
            path \o q \in DOMAIN data}
     |-> data[path \o q]]

\* executing a body: the chunks written to the writer before the execution
\* ended, and whether it ended in an error (a field the data does not have, a
\* template that is not defined).  depth bounds the nesting of calls.
RECURSIVE ExecBody(_, _, _, _)
ExecBody(tpl, body, data, depth) ==
  IF body = <<>> THEN [err |-> FALSE, out |-> <<>>]
  ELSE LET node == Head(body)
           first ==
             CASE node.k = "text" -> [err |-> FALSE, out |-> <<node.cs>>]
               [] node.k = "field" ->
                    IF node.p \in DOMAIN data
                    THEN [err |-> FALSE, out |-> << <<data[node.p]>> >>]
                    ELSE [err |-> TRUE, out |-> <<>>]
               [] OTHER ->
                    IF node.n \in DOMAIN tpl /\ node.p \in DOMAIN data
                       /\ depth > 0
                    THEN ExecBody(tpl, tpl[node.n], Sub(data, node.p),
                                  depth - 1)
                    ELSE [err |-> TRUE, out |-> <<>>]
       IN IF first.err THEN first
          ELSE LET rest == ExecBody(tpl, Tail(body), data, depth)
               IN [err |-> rest.err, out |-> first.out \o rest.out]

\* t.ExecuteTemplate(w, name, data) without the writer: the chunks in order
\* and whether the engine reported an error
ExecuteTemplate(t, name, data) ==
  IF name \notin DOMAIN t.tpl THEN [err |-> TRUE, out |-> <<>>]
  ELSE ExecBody(t.tpl, t.tpl[name], data, 2)

\* the chunks joined: what a buffer holds
RECURSIVE Join(_)
Join(chunks) == IF chunks = <<>> THEN <<>> ELSE Head(chunks) \o Join(Tail(chunks))

----------------------------------------------------------------------------
(***************************************************************************)
(* TemplateContext: the context store.  A context holds its core (config,  *)
(* base patterns, extra patterns, on-load hook) and a pointer to the base  *)
(* data cell.                                                              *)
(***************************************************************************)
BaseValues == {"0", "1"}                   \* values of the base data
Hooks == {"nil", "ok", "fail"}             \* onLoad: none, returns nil, fails

Core(config, base, with, onLoad) ==
  [config |-> config, base |-> base, with |-> with, onLoad |-> onLoad]

NoOp == [op |-> "none"]

\* NewTemplateContext(config, baseData, basePatterns...)
NewTemplateContext(config, onLoad, baseData, base) ==
  /\ Len(ctxs) < MaxCtx
  /\ cells' = Append(cells, baseData)
  /\ ctxs' = Append(ctxs, [core |-> Core(config, base, <<>>, onLoad),
                           cell |-> Len(cells) + 1])
  /\ last' = NoOp
  /\ UNCHANGED <<livevars, regvars, registry, units, fs>>

\* tc.Copy(): the pattern lists and the hook copied, the base data cell shared
Copy(c) ==
  /\ Len(ctxs) < MaxCtx
  /\ ctxs' = Append(ctxs, ctxs[c])
  /\ last' = NoOp
  /\ UNCHANGED <<livevars, regvars, registry, cells, units, fs>>

\* tc.WithTemplates(pattern): a derived context with the pattern appended
WithTemplates(c, pattern) ==
  /\ Len(ctxs) < MaxCtx
  /\ ctxs' = Append(ctxs, [ctxs[c] EXCEPT !.core.with = Append(@, pattern)])
  /\ last' = NoOp
  /\ UNCHANGED <<livevars, regvars, registry, cells, units, fs>>

\* SetBaseTemplates on a pattern list that Copy shares with the original
SetBaseTemplatesShared(c, base) ==
  /\ ctxs[c].core.base # base
  /\ ctxs' = [k \in DOMAIN ctxs |->
                IF ctxs[k].cell = ctxs[c].cell
                THEN [ctxs[k] EXCEPT !.core.base = base] ELSE ctxs[k]]
  /\ last' = NoOp
  /\ UNCHANGED <<livevars, regvars, registry, cells, units, fs>>

\* tc.SetBaseTemplates(patterns...)
SetBaseTemplates(c, base) ==
  /\ ctxs[c].core.base # base
  /\ ctxs' = [ctxs EXCEPT ![c].core.base = base]
  /\ last' = NoOp
  /\ UNCHANGED <<livevars, regvars, registry, cells, units, fs>>

\* tc.SetBaseData(value): the shared cell is written in place
SetBaseData(c, value) ==
  /\ cells[ctxs[c].cell] # value
  /\ cells' = [cells EXCEPT ![ctxs[c].cell] = value]
  /\ last' = [op |-> "SetBaseData", cell |-> ctxs[c].cell, value |-> value]
  /\ UNCHANGED <<livevars, regvars, registry, ctxs, units, fs>>

\* a file is saved
EditFiles(ver) ==
  /\ fs # ver
  /\ fs' = ver
  /\ last' = NoOp
  /\ UNCHANGED <<livevars, regvars, registry, cells, ctxs, units>>

----------------------------------------------------------------------------
(***************************************************************************)
(* Template and SubTemplate: construction and Load                         *)
(***************************************************************************)

\* registry.Add(&t)
registryAdd(reg, u) == Append(reg, u)

\* NewTemplate(tc, data): the core copied, the base data pointer shared
NewTemplate(c, data) ==
  /\ Len(units) < MaxUnits
  /\ units' = Append(units, [wrap |-> TRUE, ctx |-> ctxs[c].core,
                             cell |-> ctxs[c].cell, usePattern |-> "",
                             data |-> data, t |-> NilEngine, tc |-> 0])
  /\ registry' = registryAdd(registry, Len(units) + 1)
  /\ last' = [op |-> "New", unit |-> Len(units) + 1]
  /\ UNCHANGED <<livevars, regvars, cells, ctxs, fs>>

\* package core, Templ: NewTemplate(tc, pattern, data) with useBaseData true
\* and NewSubTemplate(tc, pattern, data) with useBaseData false.  A Templ
\* keeps the pointer tc to its context and is given its lookup pattern; tc is
\* 0 in a Template and a SubTemplate, which copy the context's core.
NewTempl(c, pattern, data, useBaseData) ==
  /\ Len(units) < MaxUnits
  /\ units' = Append(units, [wrap |-> useBaseData, ctx |-> ctxs[c].core,
                             cell |-> ctxs[c].cell, usePattern |-> pattern,
                             data |-> data, t |-> NilEngine, tc |-> c])
  /\ registry' = registryAdd(registry, Len(units) + 1)
  /\ last' = [op |-> "New", unit |-> Len(units) + 1]
  /\ UNCHANGED <<livevars, regvars, cells, ctxs, fs>>

\* a NewSubTemplate that parses the context's patterns at once
NewSubTemplateEager(c, pattern, data) ==
  /\ Len(units) < MaxUnits
  /\ units' = Append(units, [wrap |-> FALSE, ctx |-> ctxs[c].core,
                             cell |-> 0, usePattern |-> pattern,
                             data |-> data,
                             t |-> ParseFS(fs, ctxs[c].core.base
                                                 \o ctxs[c].core.with),
                             tc |-> 0])
  /\ registry' = registryAdd(registry, Len(units) + 1)
  /\ last' = [op |-> "New", unit |-> Len(units) + 1]
  /\ UNCHANGED <<livevars, regvars, cells, ctxs, fs>>

\* NewSubTemplate(tc, pattern, data): a unit without base data
NewSubTemplate(c, pattern, data) ==
  /\ Len(units) < MaxUnits
  /\ units' = Append(units, [wrap |-> FALSE, ctx |-> ctxs[c].core,
                             cell |-> 0, usePattern |-> pattern,
                             data |-> data, t |-> NilEngine, tc |-> 0])
  /\ registry' = registryAdd(registry, Len(units) + 1)
  /\ last' = [op |-> "New", unit |-> Len(units) + 1]
  /\ UNCHANGED <<livevars, regvars, cells, ctxs, fs>>

\* error values: the sentinel an error matches (errors.Is), whether it is a
\* TemplateError and then its context, and whether the .B/.D hint is added
NoErr ==
  [kind |-> "none", te |-> FALSE, base |-> <<>>, with |-> <<>>, use |-> "",
   hint |-> FALSE]
PlainError(kind) == [NoErr EXCEPT !.kind = kind]
TemplateError(ctx, usePattern, kind) ==
  [kind |-> kind, te |-> TRUE, base |-> ctx.base, with |-> ctx.with,
   use |-> usePattern, hint |-> FALSE]

Loaded(u, err) == [unit |-> u, err |-> err]

\* load with the parsed engine kept from an earlier load
loadCached(u, data) ==
  IF u.t.ok THEN Loaded(u, NoErr)
  ELSE LET t == ParseFS(fs, u.ctx.base \o u.ctx.with)
       IN IF ~t.ok
          THEN Loaded([u EXCEPT !.t = t],
                      TemplateError(u.ctx, u.usePattern, "parse"))
          ELSE IF ExecuteTemplate(t, u.usePattern, data).err
          THEN Loaded([u EXCEPT !.t = t],
                      TemplateError(u.ctx, u.usePattern, "exec"))
          ELSE Loaded([u EXCEPT !.t = t], NoErr)

\* load without the trial execution
loadParseOnly(u, data) ==
  LET t == ParseFS(fs, u.ctx.base \o u.ctx.with)
  IN IF ~t.ok
     THEN Loaded([u EXCEPT !.t = t],
                 TemplateError(u.ctx, u.usePattern, "parse"))
     ELSE Loaded([u EXCEPT !.t = t], NoErr)

\* load with the config test before the hook
loadConfigFirst(u, data) ==
  IF ~u.ctx.config THEN Loaded(u, PlainError("noconfig"))
  ELSE IF u.ctx.onLoad = "fail" THEN Loaded(u, PlainError("hook"))
  ELSE IF Len(u.ctx.base \o u.ctx.with) = 0
  THEN Loaded(u, TemplateError(u.ctx, "", "nopatterns"))
  ELSE LET t == ParseFS(fs, u.ctx.base \o u.ctx.with)
       IN IF ~t.ok
          THEN Loaded([u EXCEPT !.t = t],
                      TemplateError(u.ctx, u.usePattern, "parse"))
          ELSE IF ExecuteTemplate(t, u.usePattern, data).err
          THEN Loaded([u EXCEPT !.t = t],
                      TemplateError(u.ctx, u.usePattern, "exec"))
          ELSE Loaded([u EXCEPT !.t = t], NoErr)

\* (t *SubTemplate[U]) load(data): the hook, the config, the patterns, the
\* parse (t.t is assigned whatever ParseFS returns), the trial execution
load(u, data) ==
  IF u.ctx.onLoad = "fail" THEN Loaded(u, PlainError("hook"))
  ELSE IF ~u.ctx.config THEN Loaded(u, PlainError("noconfig"))
  ELSE IF Len(u.ctx.base \o u.ctx.with) = 0
  THEN Loaded(u, TemplateError(u.ctx, "", "nopatterns"))
  ELSE LET t == ParseFS(fs, u.ctx.base \o u.ctx.with)
       IN IF ~t.ok
          THEN Loaded([u EXCEPT !.t = t],
                      TemplateError(u.ctx, u.usePattern, "parse"))
          ELSE IF ExecuteTemplate(t, u.usePattern, data).err
          THEN Loaded([u EXCEPT !.t = t],
                      TemplateError(u.ctx, u.usePattern, "exec"))
          ELSE Loaded([u EXCEPT !.t = t], NoErr)

\* the hint is added to every TemplateError
WithHintAlways(r) ==
  IF r.err.te THEN Loaded(r.unit, [r.err EXCEPT !.hint = TRUE]) ELSE r

\* if errors.Is(err, ErrTemplateExecute) { return fmt.Errorf("%w: has .B or
\* .D prefix been included for this Template?", err) }
WithHint(r) ==
  IF r.err.kind = "exec" THEN Loaded(r.unit, [r.err EXCEPT !.hint = TRUE])
  ELSE r

\* Load of a page with the first base pattern's folder as lookup pattern
TemplateLoadDir(u) ==
  IF Len(u.ctx.base) = 0
  THEN Loaded(u, TemplateError(u.ctx, u.usePattern, "nobase"))
  ELSE LET v == [u EXCEPT !.usePattern = u.ctx.base[1][1]]
       IN WithHint(load(v, BaseData(TitleData(cells[u.cell]), u.data)))

\* (t *Template[T, U]) Load()
TemplateLoad(u) ==
  IF Len(u.ctx.base) = 0
  THEN Loaded(u, TemplateError(u.ctx, u.usePattern, "nobase"))
  ELSE LET v == [u EXCEPT !.usePattern = Base(u.ctx.base[1])]
       IN WithHint(load(v, BaseData(TitleData(cells[u.cell]), u.data)))

\* (t *SubTemplate[U]) Load()
SubTemplateLoad(u) == load(u, u.data)

\* newLoadingError(t, err): the error with the context's patterns as they
\* are now and the unit's lookup pattern
newLoadingError(u, kind) ==
  [TemplateError(ctxs[u.tc].core, u.usePattern, kind) EXCEPT
     !.hint = (kind = "exec")]

\* (t *Templ[T, U]) Load(): the hook, the config, the patterns, the parse,
\* the trial execution on the sample data, wrapped if useBaseData
TemplLoad(u) ==
  LET tc == ctxs[u.tc].core
      d == IF u.wrap THEN BaseData(TitleData(cells[u.cell]), u.data)
           ELSE u.data
  IN IF tc.onLoad = "fail" THEN Loaded(u, PlainError("hook"))
     ELSE IF ~tc.config THEN Loaded(u, PlainError("noconfig"))
     ELSE IF Len(tc.base \o tc.with) = 0
     THEN Loaded(u, newLoadingError(u, "nopatterns"))
     ELSE LET t == ParseFS(fs, tc.base \o tc.with)
          IN IF ~t.ok
             THEN Loaded([u EXCEPT !.t = t], newLoadingError(u, "parse"))
             ELSE IF ExecuteTemplate(t, u.usePattern, d).err
             THEN Loaded([u EXCEPT !.t = t], newLoadingError(u, "exec"))
             ELSE Loaded([u EXCEPT !.t = t], NoErr)

\* Load() of a registered unit
LoadOf(u) ==
  IF u.tc # 0 THEN TemplLoad(u)
  ELSE IF u.wrap THEN TemplateLoad(u) ELSE SubTemplateLoad(u)

\* a direct Load() call on unit i
Load(i) ==
  \E r \in {LoadOf(units[i])} :
     /\ units' = [units EXCEPT ![i] = r.unit]
     /\ last' = [op |-> "Load", unit |-> i, err |-> r.err,
                 was |-> units[i].t]
     /\ UNCHANGED <<livevars, regvars, registry, cells, ctxs, fs>>

\* the first place in the registry, in registration order, whose unit's Load
\* fails; 0 if every Load succeeds.  res[i] is what Load does on unit i.
FirstFailing(res) ==
  LET failing == {k \in DOMAIN registry : res[registry[k]].err.kind # "none"}
  IN IF failing = {} THEN 0
     ELSE CHOOSE k \in failing : \A j \in failing : k <= j

\* registry.LoadTemplates(): Load on each registered unit in registration
\* order; the first failure ends the loop and is returned with the failing
\* unit's patterns and lookup pattern
LoadTemplates ==
  \E res \in {[i \in DOMAIN units |-> LoadOf(units[i])]} :
  \E stop \in {FirstFailing(res)} :
  LET tried == {registry[k] :
                  k \in 1..(IF stop = 0 THEN Len(registry) ELSE stop)}
      failed == IF stop = 0 THEN 0 ELSE registry[stop]
      ret == IF stop = 0 THEN NoErr
             ELSE [res[failed].err EXCEPT
                     !.te = TRUE,
                     !.base = res[failed].unit.ctx.base,
                     !.with = res[failed].unit.ctx.with,
                     !.use = res[failed].unit.usePattern]
  IN /\ units' = [i \in DOMAIN units |->
                    IF i \in tried THEN res[i].unit ELSE units[i]]
     /\ last' = [op |-> "LoadTemplates", err |-> ret, unit |-> failed,
                 tried |-> tried, again |-> last.op = "LoadTemplates"]
     /\ UNCHANGED <<livevars, regvars, registry, cells, ctxs, fs>>

----------------------------------------------------------------------------
(***************************************************************************)
(* Render.  The sink is an io.Writer whose every Write returns the same    *)
(* error, or nil.                                                          *)
(***************************************************************************)
ProtocolErrors == {"ErrBodyNotAllowed", "ErrHijacked", "ErrContentLength"}
Sinks == {"nil", "EPIPE"} \cup ProtocolErrors

\* t.ExecuteTemplate(w, name, data): the engine stops at the first Write
\* that fails and returns the writer's error as it is
ExecuteTo(t, name, data, sink) ==
  LET x == ExecuteTemplate(t, name, data)
  IN IF sink = "nil" \/ x.out = <<>>
     THEN [err |-> IF x.err THEN "exec" ELSE "nil", written |-> Join(x.out),
           calls |-> IF sink = "nil" THEN Len(x.out) ELSE 0]
     ELSE [err |-> sink, written |-> <<>>, calls |-> 1]

\* strings.ToLower: unicode.ToLower rune by rune, each result encoded anew.
\* The Kelvin sign (three bytes) becomes the letter k (one byte), so the
\* result can be shorter than the argument.  The marker is one token in
\* either case.
RECURSIVE ToLower(_)
ToLower(html) ==
  IF html = <<>> THEN <<>>
  ELSE IF Len(html) >= Len(KelvinSign)
          /\ SubSeq(html, 1, Len(KelvinSign)) = KelvinSign
  THEN <<"k">> \o ToLower(SubSeq(html, Len(KelvinSign) + 1, Len(html)))
  ELSE <<IF Head(html) = "</BODY>" THEN "</body>" ELSE Head(html)>>
       \o ToLower(Tail(html))

\* strings.LastIndex(s, "</body>"), 0-based; -1 if there is none
LastIndex(html) ==
  IF \E i \in DOMAIN html : html[i] = "</body>"
  THEN (CHOOSE i \in DOMAIN html :
          /\ html[i] = "</body>"
          /\ \A j \in DOMAIN html : html[j] = "</body>" => j <= i) - 1
  ELSE -1

\* html[:idx] + registry.JSToInject() + html[idx:]
Inject(html, js) ==
  LET idx == LastIndex(ToLower(html))
  IN IF idx # -1
     THEN Slice(html, 0, idx) \o js \o Slice(html, idx, Len(html))
     ELSE html

\* how a render call ended: panic is "none" if it returned, and otherwise
\* names what it panicked on: the sink's error, the engine's error, or a nil
\* engine; exec is what the engine's ExecuteTemplate returned ("none" if it
\* was not called)
Rendered(u, pnc, calls, written, loadErr, exec) ==
  [unit |-> u, panic |-> pnc, calls |-> calls, written |-> written,
   loadErr |-> loadErr, exec |-> exec]

\* the panic on a Write's error, raised for the protocol errors alone
PanicOnProtocol(err) == IF err \in ProtocolErrors THEN "sink" ELSE "none"

\* the panic on whatever error is not nil
PanicOnAny(err) ==
  CASE err = "nil" -> "none"
    [] err = "exec" -> "exec"
    [] OTHER -> "sink"

\* render that reloads in live mode only while the unit has no engine yet
renderCached(u, d, sink) ==
  IF ~u.t.ok /\ ~liveReload
  THEN Rendered(u, "nil engine", 0, <<>>, "none", "none")
  ELSE LET l == IF u.t.ok THEN Loaded(u, NoErr) ELSE load(u, d)
       IN IF l.err.kind # "none"
          THEN Rendered(l.unit, PanicOnAny(sink), 1,
                        IF sink = "nil" THEN jsToInject ELSE <<>>,
                        l.err.kind, "none")
          ELSE LET r == ExecuteTo(l.unit.t, l.unit.usePattern, d, sink)
               IN Rendered(l.unit, PanicOnProtocol(r.err), 1,
                           IF liveReload /\ r.err = "nil"
                           THEN Inject(r.written, jsToInject)
                           ELSE r.written,
                           "none", r.err)

\* render reloading the unit before it executes, in production as well
renderReloading(u, d, sink) ==
  LET l == load(u, d)
  IN IF l.err.kind # "none"
     THEN Rendered(l.unit, PanicOnAny(sink), 1,
                   IF sink = "nil" THEN jsToInject ELSE <<>>,
                   IF liveReload THEN l.err.kind ELSE "none", "none")
     ELSE LET r == ExecuteTo(l.unit.t, l.unit.usePattern, d, sink)
          IN Rendered(l.unit, PanicOnProtocol(r.err), r.calls, r.written,
                      "none", r.err)

\* (t *SubTemplate[U]) render(w, d)
render(u, d, sink) ==
  IF ~liveReload
  THEN IF ~u.t.ok
       THEN Rendered(u, "nil engine", 0, <<>>, "none", "none")
       ELSE LET r == ExecuteTo(u.t, u.usePattern, d, sink)
            IN Rendered(u, PanicOnProtocol(r.err), r.calls, r.written, "none",
                        r.err)
  ELSE LET l == load(u, d)
       IN IF l.err.kind # "none"
          THEN Rendered(l.unit, PanicOnAny(sink), 1,
                        IF sink = "nil" THEN jsToInject ELSE <<>>,
                        l.err.kind, "none")
          ELSE LET x == ExecuteTemplate(l.unit.t, l.unit.usePattern, d)
               IN IF x.err
                  THEN Rendered(l.unit, "exec", 0, <<>>, "none", "exec")
                  ELSE Rendered(l.unit, PanicOnProtocol(sink), 1,
                                IF sink = "nil"
                                THEN Inject(Join(x.out), jsToInject)
                                ELSE <<>>,
                                "none", "nil")

\* (fw *failWriter) Write(p): the error it returns for the sink's error.  A
\* protocol error is kept and returned; any other error is dropped.
failWriter(sink) == IF sink \in ProtocolErrors THEN sink ELSE "nil"

\* t.ExecuteTemplate(fw, name, data): the engine sees failWriter's error, so
\* it goes on writing to a sink whose error failWriter drops
ExecuteToFailWriter(t, name, data, sink) ==
  IF failWriter(sink) # "nil" THEN ExecuteTo(t, name, data, sink)
  ELSE LET x == ExecuteTemplate(t, name, data)
       IN [err |-> IF x.err THEN "exec" ELSE "nil",
           written |-> IF sink = "nil" THEN Join(x.out) ELSE <<>>,
           calls |-> Len(x.out)]

\* package core: (t *SubTemplate[U]) render(w, d), which writes through a
\* failWriter and panics on every error it is left with
coreRender(u, d, sink) ==
  IF ~liveReload
  THEN IF ~u.t.ok
       THEN Rendered(u, "nil engine", 0, <<>>, "none", "none")
       ELSE LET r == ExecuteToFailWriter(u.t, u.usePattern, d, sink)
            IN Rendered(u, PanicOnAny(r.err), r.calls, r.written, "none",
                        r.err)
  ELSE LET l == load(u, d)
       IN IF l.err.kind # "none"
          THEN Rendered(l.unit, PanicOnAny(failWriter(sink)), 1,
                        IF sink = "nil" THEN jsToInject ELSE <<>>,
                        l.err.kind, "none")
          ELSE LET x == ExecuteTemplate(l.unit.t, l.unit.usePattern, d)
               IN IF x.err
                  THEN Rendered(l.unit, "exec", 0, <<>>, "none", "exec")
                  ELSE Rendered(l.unit, PanicOnAny(failWriter(sink)), 1,
                                IF sink = "nil"
                                THEN Inject(Join(x.out), jsToInject)
                                ELSE <<>>,
                                "none", "nil")

\* errors.As(err, &LoadingError{}): the target's type is LoadingError, and
\* an error matches if it, or an error it unwraps to, is a LoadingError
\* value; typ is the dynamic type of the error render returned, which
\* unwraps to an error made by fmt.Errorf without %w
AsLoadingError(typ) == typ = "LoadingError"

\* (t *Templ[T, U]) render(w, data) followed by what Render does with the
\* error it returns: a panic if the error is a LoadingError or one of the
\* three protocol errors
templRender(u, d, sink) ==
  IF ~liveReload
  THEN IF ~u.t.ok
       THEN Rendered(u, "nil engine", 0, <<>>, "none", "none")
       ELSE LET r == ExecuteTo(u.t, u.usePattern, d, sink)
                returned == IF r.err = "exec" THEN "*LoadingError" ELSE r.err
            IN Rendered(u,
                        IF AsLoadingError(returned) THEN "exec"
                        ELSE PanicOnProtocol(returned),
                        r.calls, r.written, "none", r.err)
  ELSE LET l == TemplLoad(u)
       IN IF l.err.kind # "none"
          THEN Rendered(l.unit, PanicOnProtocol(sink), 1,
                        IF sink = "nil" THEN jsToInject ELSE <<>>,
                        l.err.kind, "none")
          ELSE LET x == ExecuteTemplate(l.unit.t, l.unit.usePattern, d)
               IN IF x.err
                  THEN Rendered(l.unit,
                                IF AsLoadingError("*LoadingError")
                                THEN "exec" ELSE "none",
                                0, <<>>, "none", "exec")
                  ELSE Rendered(l.unit, PanicOnProtocol(sink), 1,
                                IF sink = "nil"
                                THEN Inject(Join(x.out), jsToInject)
                                ELSE <<>>,
                                "none", "nil")

\* the two packages that define Template and SubTemplate
Packages == {"loadr", "core"}

\* the values of a unit's data type U: Render takes a U
RenderValues == {"r"}
ValuesOfType(sample) == {[q \in DOMAIN sample |-> v] : v \in RenderValues}

\* the base data as it was when the context was created
RenderDataStale(u, data) == BaseData(TitleData("0"), data)

\* d := BaseData[T, U]{B: *t.baseData, D: data}
RenderData(u, data) == BaseData(TitleData(cells[u.cell]), data)

\* Render(w, data) on unit i: of a Templ as Templ defines it, of a Template
\* or SubTemplate as package pkg defines it; with the base data if the unit
\* wraps, with the data alone if not.  A failed reload goes to Notify.
Render(pkg, i, data, sink) ==
  \E d \in {IF units[i].wrap THEN RenderData(units[i], data) ELSE data} :
  \E r \in {CASE units[i].tc # 0 -> templRender(units[i], d, sink)
               [] pkg = "core" -> coreRender(units[i], d, sink)
               [] OTHER -> render(units[i], d, sink)} :
     /\ units' = [units EXCEPT ![i] = r.unit]
     /\ last' = [op |-> "Render",
                 pkg |-> IF units[i].tc # 0 THEN "templ" ELSE pkg,
                 unit |-> i, live |-> liveReload,
                 data |-> d, sink |-> sink, panic |-> r.panic,
                 calls |-> r.calls, written |-> r.written,
                 loadErr |-> r.loadErr, exec |-> r.exec]
     /\ IF r.loadErr # "none"
        THEN hLast' = HandlerCall(NoEvent, r.loadErr, seenEv)
        ELSE UNCHANGED hLast
     /\ UNCHANGED <<runvars, ctxDone, watchvars, bLast, clientvars, regvars,
                    registry, cells, ctxs, fs>>

----------------------------------------------------------------------------
(***************************************************************************)
(* Render in live mode, statement by statement.  Each goroutine that calls *)
(* Render runs load and the execution as separate accesses of the unit's   *)
(* field t, which no lock protects: load assigns it, the trial execution   *)
(* and the execution into the buffer read it.  A read sees the value of    *)
(* the last assignment by any goroutine.  own is the engine the goroutine  *)
(* itself parsed and ran the engine it executed into the buffer.           *)
(***************************************************************************)
Idle == [pc |-> "idle", unit |-> 0, d |-> NoData, own |-> NilEngine,
         ran |-> NilEngine]

\* t.t, err = ...ParseFS(...) assigning the field t of every unit
ParsedIntoAll(us, i, t) == [j \in DOMAIN us |-> [us[j] EXCEPT !.t = t]]

\* t.t, err = template.New("").Funcs(...).ParseFS(t.ctx.config.FS, patterns...)
ParsedInto(us, i, t) == [us EXCEPT ![i].t = t]

\* Render(w, data) is called on unit i in live mode: render goes to load
RenderStart(w, i, data) ==
  /\ liveReload
  /\ workers[w].pc = "idle"
  /\ units[i].tc = 0
  /\ workers' = [workers EXCEPT ![w] =
                   [pc |-> "load", unit |-> i,
                    d |-> IF units[i].wrap THEN RenderData(units[i], data)
                          ELSE data,
                    own |-> NilEngine, ran |-> NilEngine]]
  /\ UNCHANGED <<livevars, liveReload, jsToInject, tplvars>>

\* load up to the assignment of t.t: the hook, the config, the patterns, the
\* parse; on an error render calls Notify, writes the script and returns
LoadParse(w) ==
  /\ workers[w].pc = "load"
  /\ LET i == workers[w].unit
         ctx == units[i].ctx
     IN IF ctx.onLoad = "fail" \/ ~ctx.config \/ Len(ctx.base \o ctx.with) = 0
        THEN /\ workers' = [workers EXCEPT ![w].pc = "failed"]
             /\ hLast' = HandlerCall(NoEvent,
                                     IF ctx.onLoad = "fail" THEN "hook"
                                     ELSE IF ~ctx.config THEN "noconfig"
                                     ELSE "nopatterns", seenEv)
             /\ UNCHANGED units
        ELSE \E t \in {ParseFS(fs, ctx.base \o ctx.with)} :
               /\ units' = ParsedInto(units, i, t)
               /\ workers' = [workers EXCEPT
                                ![w].own = t,
                                ![w].pc = IF t.ok THEN "trial" ELSE "failed"]
               /\ IF t.ok THEN UNCHANGED hLast
                  ELSE hLast' = HandlerCall(NoEvent, "parse", seenEv)
  /\ UNCHANGED <<runvars, ctxDone, watchvars, bLast, clientvars, liveReload,
                 jsToInject, registry, cells, ctxs, fs, last>>

\* load goes on: err = t.t.ExecuteTemplate(&buf, t.usePattern, data) on the
\* engine the field holds now; a nil engine panics
LoadTrial(w) ==
  /\ workers[w].pc = "trial"
  /\ LET u == units[workers[w].unit]
     IN IF ~u.t.ok
        THEN workers' = [workers EXCEPT ![w].pc = "panic"] /\ UNCHANGED hLast
        ELSE IF ExecuteTemplate(u.t, u.usePattern, workers[w].d).err
        THEN /\ workers' = [workers EXCEPT ![w].pc = "failed"]
             /\ hLast' = HandlerCall(NoEvent, "exec", seenEv)
        ELSE workers' = [workers EXCEPT ![w].pc = "exec"] /\ UNCHANGED hLast
  /\ UNCHANGED <<runvars, ctxDone, watchvars, bLast, clientvars, liveReload,
                 jsToInject, tplvars>>

\* render goes on: err = t.t.ExecuteTemplate(&buf, t.usePattern, d) on the
\* engine the field holds now, then the script and the Write
RenderExec(w) ==
  /\ workers[w].pc = "exec"
  /\ LET u == units[workers[w].unit]
     IN workers' = [workers EXCEPT
                      ![w].ran = u.t,
                      ![w].pc = IF ~u.t.ok THEN "panic"
                                ELSE IF ExecuteTemplate(u.t, u.usePattern,
                                                        workers[w].d).err
                                THEN "panic" ELSE "done"]
  /\ UNCHANGED <<livevars, liveReload, jsToInject, tplvars>>

----------------------------------------------------------------------------
Init ==
  /\ liveServerStarted = FALSE
  /\ customReloadHandler = "unset"
  /\ runRet = NilRet
  /\ runCalls = 0
  /\ ctxDone = FALSE
  /\ notify = FALSE
  /\ sigq = 0
  /\ spc = 0
  /\ signals = 0
  /\ defaulted = 0
  /\ sigLast = NoSignal
  /\ wpc = "none"
  /\ watched = {}
  /\ timers = {}
  /\ batchTimer = 0
  /\ running = {}
  /\ nEvents = 0
  /\ elapsed = BatchDelay
  /\ inEv = NoEvent
  /\ lastEv = NoEvent
  /\ seenEv = NoEvent
  /\ seenElapsed = BatchDelay
  /\ seenBursts = 0
  /\ bursts = 0
  /\ burstLen = 0
  /\ fired = 0
  /\ reloads = 0
  /\ hLast = NoCall
  /\ bLast = [msg |-> "none", skipped |-> {}, n |-> 0]
  /\ clientsRegister = {}
  /\ chan = [c \in Clients |-> <<>>]
  /\ epc = [c \in Clients |-> "idle"]
  /\ recv = [c \in Clients |-> <<>>]
  /\ liveReload = FALSE
  /\ jsToInject = NoScript
  /\ registry = <<>>
  /\ cells = <<>>
  /\ ctxs = <<>>
  /\ units = <<>>
  /\ fs = "shipped"
  /\ last = NoOp
  /\ workers = [w \in Workers |-> Idle]

\* what every goroutine of the engine but the watcher loop's inputs does
EngineNext ==
  \/ Interrupt
  \/ WatcherCancelled
  \/ WatcherStreamClosed
  \/ \E t \in timers : TimerFires(t)
  \/ \E id \in running : TimerBroadcasts(id)

(***************************************************************************)
(* WatchSpec: the watcher loop under every event and every spacing of the  *)
(* events, with no client connected.                                       *)
(***************************************************************************)
WatchNext ==
  \/ RunLiveReload("/live", "nil", RootPaths, "none")
  \/ \E e \in Events : nEvents < MaxEvents /\ WatcherEvent(e)
  \/ nEvents < MaxEvents /\ WatcherErrorCall
  \/ WatcherErrorBroadcast
  \/ \E d \in TickSteps : Tick(d)
  \/ EngineNext

WatchSpec == Init /\ [][WatchNext]_vars

(***************************************************************************)
(* LiveSpec: RunLiveReload with every argument and outcome, the clients of *)
(* the event stream, and the watcher loop under one kind of event.         *)
(***************************************************************************)
LiveNext ==
  \/ \E a \in RunArgs, f \in RunFailures :
       RunLiveReload(a[1], a[2], RootPaths, f)
  \/ nEvents < MaxFrames /\ WatcherEvent(Event(HtmlFile, "Write", "file"))
  \/ nEvents < MaxFrames /\ WatcherError
  \/ Tick(BatchDelay)
  \/ EngineNext
  \/ \E c \in Clients :
       \/ Subscribe(c)
       \/ WriteRunning(c)
       \/ Forward(c)
       \/ ClientGone(c)
       \/ ShutdownSeen(c)
       \/ Unsubscribe(c)

LiveSpec == Init /\ [][LiveNext]_vars

(***************************************************************************)
(* SignalSpec: interrupts are sent to the process before and after         *)
(* RunLiveReload, which succeeds, fails or is called twice; the interrupt  *)
(* goroutine runs statement by statement, interleaved with the signals,    *)
(* the watcher and a client.                                               *)
(***************************************************************************)
SignalNext ==
  \/ \E a \in RunArgs, f \in RunFailures :
       RunLiveReload(a[1], a[2], RootPaths, f)
  \/ Signal
  \/ SigStep
  \/ WatcherCancelled
  \/ \E c \in Clients :
       \/ Subscribe(c)
       \/ WriteRunning(c)
       \/ ShutdownSeen(c)
       \/ Unsubscribe(c)

SignalSpec == Init /\ [][SignalNext]_vars

(***************************************************************************)
(* ShutdownSpec: the watcher, the timers and the clients of one started    *)
(* engine under the scheduling Go gives its goroutines.  A goroutine that  *)
(* can take a step takes one: a select with a ready case does not block, a *)
(* case that stays ready is chosen sooner or later, and a deferred         *)
(* function runs when its function returns.                                *)
(***************************************************************************)
ShutdownNext ==
  \/ ~liveServerStarted /\ RunLiveReload("/live", "nil", RootPaths, "none")
  \/ nEvents < MaxFrames /\ WatcherEvent(Event(HtmlFile, "Write", "file"))
  \/ Tick(BatchDelay)
  \/ EngineNext
  \/ \E c \in Clients :
       \/ Subscribe(c)
       \/ WriteRunning(c)
       \/ Forward(c)
       \/ ClientGone(c)
       \/ ShutdownSeen(c)
       \/ Unsubscribe(c)

ShutdownFairness ==
  /\ WF_vars(WatcherCancelled)
  /\ \A c \in Clients :
       /\ WF_vars(WriteRunning(c))
       /\ WF_vars(ShutdownSeen(c))
       /\ WF_vars(Unsubscribe(c))

ShutdownSpec == Init /\ [][ShutdownNext]_vars /\ ShutdownFairness

(***************************************************************************)
(* LoadSpec: units are put through Load one at a time.  Contexts are       *)
(* created with and without a config, a hook and a base pattern; a derived *)
(* context adds a partial or a pattern that matches no file.               *)
(***************************************************************************)
LoadProfiles ==
  { <<TRUE, "ok">>, <<TRUE, "fail">>, <<FALSE, "nil">>, <<FALSE, "fail">> }
LoadBases == { <<>>, <<PIn>> }
LoadExtras == { POne, PTwo, PMissing }
LoadData == { Partial1("s"), Partial2("s") }

LoadNext ==
  \/ \E pr \in LoadProfiles, base \in LoadBases :
       NewTemplateContext(pr[1], pr[2], "0", base)
  \/ \E c \in DOMAIN ctxs, pattern \in LoadExtras : WithTemplates(c, pattern)
  \/ \E c \in DOMAIN ctxs, d \in LoadData :
       Len(units) < MaxLoadUnits /\ NewTemplate(c, d)
  \/ \E c \in DOMAIN ctxs, d \in LoadData :
       Len(units) < MaxLoadUnits /\ NewSubTemplate(c, "partial", d)
  \/ \E i \in DOMAIN units : Load(i)

LoadSpec == Init /\ [][LoadNext]_vars

(***************************************************************************)
(* RegistrySpec: units are registered and loaded in bulk.  A context with  *)
(* the partial p1 as its base pattern is copied, and contexts are given    *)
(* the base pattern p2; pages and sub-templates that look up p1 are built  *)
(* on them, and files are saved with and without a syntax error.           *)
(***************************************************************************)
RegistryNext ==
  \/ NewTemplateContext(TRUE, "nil", "0", <<POne>>)
  \/ \E c \in DOMAIN ctxs : Copy(c)
  \/ \E c \in DOMAIN ctxs : SetBaseTemplates(c, <<PTwo>>)
  \/ \E c \in DOMAIN ctxs : NewTemplate(c, Partial1("s"))
  \/ \E c \in DOMAIN ctxs : NewSubTemplate(c, "p1", NoData)
  \/ \E ver \in {"shipped", "broken"} : EditFiles(ver)
  \/ \E i \in DOMAIN units : Load(i)
  \/ LoadTemplates

RegistrySpec == Init /\ [][RegistryNext]_vars

(***************************************************************************)
(* RenderSpec: a page and a partial of one context chain are loaded,       *)
(* rendered to healthy and failing sinks, in production and in live mode;  *)
(* the base data is set and files are edited in between.                   *)
(***************************************************************************)
RenderNext ==
  \/ NewTemplateContext(TRUE, "nil", "0", <<PIn, POne>>)
  \/ \E c \in DOMAIN ctxs : Copy(c)
  \/ \E c \in DOMAIN ctxs, b \in BaseValues : SetBaseData(c, b)
  \/ \E c \in DOMAIN ctxs, d \in LoadData :
       Len(units) < MaxLoadUnits /\ NewTemplate(c, d)
  \/ \E c \in DOMAIN ctxs :
       Len(units) < MaxLoadUnits /\ NewSubTemplate(c, "partial", Partial1("s"))
  \/ \E c \in DOMAIN ctxs, useBaseData \in BOOLEAN :
       /\ Len(units) < MaxLoadUnits
       /\ NewTempl(c, IF useBaseData THEN "in" ELSE "partial", Partial1("s"),
                   useBaseData)
  \/ \E ver \in FsVersions : EditFiles(ver)
  \/ LoadTemplates
  \/ ~liveServerStarted /\ RunLiveReload("/live", "nil", RootPaths, "none")
  \/ \E pkg \in Packages, i \in DOMAIN units, sink \in Sinks :
       \E d \in ValuesOfType(units[i].data) : Render(pkg, i, d, sink)

RenderSpec == Init /\ [][RenderNext]_vars

(***************************************************************************)
(* FlagSpec: RunLiveReload with every argument and every outcome, before   *)
(* and between the renders of a page whose files are edited.               *)
(***************************************************************************)
FlagNext ==
  \/ Len(ctxs) < 1 /\ NewTemplateContext(TRUE, "nil", "0", <<PIn, POne>>)
  \/ \E c \in DOMAIN ctxs, d \in LoadData :
       Len(units) < MaxLoadUnits /\ NewTemplate(c, d)
  \/ \E ver \in FsVersions : EditFiles(ver)
  \/ \E a \in RunArgs, f \in RunFailures :
       RunLiveReload(a[1], a[2], RootPaths, f)
  \/ \E pkg \in Packages, i \in DOMAIN units, sink \in Sinks :
       \E d \in ValuesOfType(units[i].data) : Render(pkg, i, d, sink)

FlagSpec == Init /\ [][FlagNext]_vars

(***************************************************************************)
(* BaseDataSpec: pages of contexts that share or own a base data cell are  *)
(* loaded once and rendered to a healthy sink, in production and in live   *)
(* mode, while SetBaseData replaces the value.                             *)
(***************************************************************************)
BaseDataNext ==
  \/ NewTemplateContext(TRUE, "nil", "0", <<PIn, POne>>)
  \/ \E c \in DOMAIN ctxs : Copy(c)
  \/ \E c \in DOMAIN ctxs, b \in BaseValues : SetBaseData(c, b)
  \/ \E c \in DOMAIN ctxs : NewTemplate(c, Partial1("s"))
  \/ LoadTemplates
  \/ ~liveServerStarted /\ RunLiveReload("/live", "nil", RootPaths, "none")
  \/ \E pkg \in Packages, i \in DOMAIN units :
       \E d \in ValuesOfType(units[i].data) : Render(pkg, i, d, "nil")

BaseDataSpec == Init /\ [][BaseDataNext]_vars

(***************************************************************************)
(* ReloadSpec: a page, a partial and a Templ page of one context are       *)
(* loaded and rendered to a healthy sink, in production and in live mode,  *)
(* while the page's file is edited, broken and restored.                   *)
(***************************************************************************)
ReloadNext ==
  \/ NewTemplateContext(TRUE, "nil", "0", <<PIn, POne>>)
  \/ \E c \in DOMAIN ctxs :
       Len(units) < MaxLoadUnits /\ NewTemplate(c, Partial1("s"))
  \/ \E c \in DOMAIN ctxs :
       Len(units) < MaxLoadUnits /\ NewSubTemplate(c, "partial", Partial1("s"))
  \/ \E c \in DOMAIN ctxs :
       Len(units) < MaxLoadUnits /\ NewTempl(c, "in", Partial1("s"), TRUE)
  \/ \E ver \in FsVersions : EditFiles(ver)
  \/ LoadTemplates
  \/ ~liveServerStarted /\ RunLiveReload("/live", "nil", RootPaths, "none")
  \/ \E pkg \in Packages, i \in DOMAIN units :
       \E d \in ValuesOfType(units[i].data) : Render(pkg, i, d, "nil")

ReloadSpec == Init /\ [][ReloadNext]_vars

(***************************************************************************)
(* ConstructSpec: pages, partials and Templ pages of one context are built *)
(* before and after other units are loaded and rendered, in production     *)
(* and in live mode, while the page's file is edited.                      *)
(***************************************************************************)
ConstructNext ==
  \/ Len(ctxs) < 1 /\ NewTemplateContext(TRUE, "nil", "0", <<PIn, POne>>)
  \/ \E c \in DOMAIN ctxs : NewTemplate(c, Partial1("s"))
  \/ \E c \in DOMAIN ctxs : NewSubTemplate(c, "partial", Partial1("s"))
  \/ \E c \in DOMAIN ctxs : NewTempl(c, "in", Partial1("s"), TRUE)
  \/ \E ver \in FsVersions : EditFiles(ver)
  \/ \E i \in DOMAIN units : Load(i)
  \/ LoadTemplates
  \/ ~liveServerStarted /\ RunLiveReload("/live", "nil", RootPaths, "none")
  \/ \E pkg \in Packages, i \in DOMAIN units :
       \E d \in ValuesOfType(units[i].data) : Render(pkg, i, d, "nil")

ConstructSpec == Init /\ [][ConstructNext]_vars

(***************************************************************************)
(* RaceSpec: sub-templates of a context and of a context derived from it   *)
(* are rendered in live mode by two goroutines at once, on the same unit   *)
(* or on different units, while the page's file is edited and broken.      *)
(***************************************************************************)
RaceNext ==
  \/ Len(ctxs) < 1 /\ NewTemplateContext(TRUE, "nil", "0", <<PIn, POne>>)
  \/ \E c \in DOMAIN ctxs : WithTemplates(c, PTwo)
  \/ \E c \in DOMAIN ctxs : NewSubTemplate(c, "p1", NoData)
  \/ \E ver \in FsVersions : EditFiles(ver)
  \/ ~liveServerStarted /\ RunLiveReload("/live", "nil", RootPaths, "none")
  \/ \E w \in Workers, i \in DOMAIN units :
       \E d \in ValuesOfType(units[i].data) : RenderStart(w, i, d)
  \/ \E w \in Workers : LoadParse(w)
  \/ \E w \in Workers : LoadTrial(w)
  \/ \E w \in Workers : RenderExec(w)

RaceSpec == Init /\ [][RaceNext]_vars

----------------------------------------------------------------------------
(***************************************************************************)
(* Properties                                                              *)
(***************************************************************************)

\* the last handleChange call was made by a debounce timer
TimerCalledHandler == hLast.err = "none" /\ hLast.ev # NoEvent

\* C1, as claimed: every burst of events the loop does not ignore (each less
\* than BatchDelay after the one before) gives one timer, so one handler call
\* and one reload broadcast, and the handler gets the last of these events.
C1_EveryEventDebounced ==
  /\ fired + Cardinality(timers) = seenBursts
  /\ TimerCalledHandler => hLast.seen

\* C1, amended: the events that reach the timer reset (not ignored, and a
\* Create event's os.Stat succeeds), each less than BatchDelay after the one
\* before, leave one armed timer; it fires once, the handler is called once,
\* with the last of these events, and "data: reload" is broadcast once.
C1_DebounceCoalesces ==
  /\ Cardinality(timers) <= 1
  /\ fired + Cardinality(timers) = bursts
  /\ reloads + Cardinality(running) = fired
  /\ TimerCalledHandler => hLast.latest

\* a burst of two or more timer resets has fired: one call, one broadcast
C1_BurstFiredOnce ==
  /\ burstLen >= 2
  /\ bursts = 1
  /\ fired = 1
  /\ reloads = 1
  /\ timers = {}
  /\ running = {}
  /\ TimerCalledHandler

\* a broadcast is never made to wait: the callback that has called the handler
\* can broadcast whatever the channels hold
BroadcastNeverWaits ==
  \A id \in running : Alive => ENABLED TimerBroadcasts(id)

\* a broadcast step fills every registered empty channel with its message and
\* leaves every full one as it is
BroadcastDelivers ==
  bLast'.n # bLast.n =>
    \A c \in clientsRegister :
      /\ chan[c] = <<>> => chan'[c] = <<bLast'.msg>>
      /\ chan[c] # <<>> => chan'[c] = chan[c]

\* C2: with A never reading its channel, a broadcast still ends, having tried
\* one non-blocking send per subscriber, and puts the message into B's channel
\* whenever that channel is empty.
C2_SlowSubscriberIsolated ==
  [](BroadcastNeverWaits) /\ [][BroadcastDelivers]_vars

\* the last broadcast skipped A, whose channel was full, and reached B
C2_SkippedAReachedB ==
  /\ bLast.n >= 2
  /\ {"A", "B"} \subseteq clientsRegister
  /\ bLast.skipped = {"A"}
  /\ Len(recv["A"]) = 1
  /\ chan["B"] = <<bLast.msg>>

\* C3: a RunLiveReload call made while the first instance is active returns
\* the error and no handler, and changes nothing of the first instance: the
\* subscribers, the reload handler, the script and the live reload flag stay.
C3_SecondRunRejected ==
  [][(Serving /\ runCalls' # runCalls) =>
       /\ runRet' = [err |-> "already running", handler |-> FALSE]
       /\ UNCHANGED <<clientsRegister, chan, customReloadHandler, jsToInject,
                      liveReload, liveServerStarted, wpc, watched, ctxDone>>]_vars

\* a second call was rejected while a client was subscribed
C3_RejectedWhileSubscribed ==
  /\ runRet.err = "already running"
  /\ clientsRegister # {}
  /\ wpc = "run"
  /\ liveReload

----------------------------------------------------------------------------
(***************************************************************************)
(* What a unit's Load is to look up, execute and find                      *)
(***************************************************************************)
LastLoad == last.op = "Load"
LastLoadTemplates == last.op = "LoadTemplates"
LastRender == last.op = "Render"

PatternsOf(u) == u.ctx.base \o u.ctx.with
LookupOf(u) ==
  IF u.wrap /\ u.ctx.base # <<>> THEN Base(u.ctx.base[1]) ELSE u.usePattern
SampleOf(u) ==
  IF u.wrap THEN BaseData(TitleData(cells[u.cell]), u.data) ELSE u.data
HookFails(u) == u.ctx.onLoad = "fail"
ParseFails(u) ==
  \E k \in 1..Len(PatternsOf(u)) :
     ~Matches(PatternsOf(u)[k]) \/ ~File(fs, PatternsOf(u)[k]).ok
TrialFails(u) ==
  ExecuteTemplate(ParseFS(fs, PatternsOf(u)), LookupOf(u), SampleOf(u)).err
NoBase(u) == u.wrap /\ u.ctx.base = <<>>

\* the first of the five checks that fails, in the order of the claim
FirstFailure(u) ==
  IF HookFails(u) THEN "hook"
  ELSE IF ~u.ctx.config THEN "noconfig"
  ELSE IF PatternsOf(u) = <<>> THEN "nopatterns"
  ELSE IF ParseFails(u) THEN "parse"
  ELSE IF TrialFails(u) THEN "exec"
  ELSE "none"

LoadFails(u) == NoBase(u) \/ FirstFailure(u) # "none"

Mismatch(u) ==
  /\ ~NoBase(u)
  /\ FirstFailure(u) \in {"exec", "none"}
  /\ LookupOf(u) \in {"in", "partial"}
  /\ LET t == ParseFS(fs, PatternsOf(u))
     IN /\ "partial" \in DOMAIN t.tpl
        /\ \E k \in DOMAIN t.tpl["partial"] :
             /\ t.tpl["partial"][k].k = "field"
             /\ t.tpl["partial"][k].p \notin DOMAIN u.data

\* C5: a unit whose sample data does not match its lookup pattern fails Load
\* with an error that matches ErrTemplateExecute; a base-wrapped unit's error
\* carries the .B/.D hint; no other Load failure carries the hint.
C5_MismatchFailsLoad ==
  LastLoad =>
    /\ Mismatch(units[last.unit]) =>
         /\ last.err.kind = "exec"
         /\ units[last.unit].wrap => last.err.hint
    /\ last.err.hint => units[last.unit].wrap /\ last.err.kind = "exec"

\* a base-wrapped unit with mismatched sample data was loaded
C5_WrappedMismatchHinted ==
  /\ LastLoad
  /\ units[last.unit].wrap
  /\ Mismatch(units[last.unit])
  /\ last.err.kind = "exec"
  /\ last.err.hint

\* what LoadTemplates returned, against the registered units
LoadTemplatesResult ==
  LastLoadTemplates =>
    /\ last.err.kind = "none" <=>
         \A k \in DOMAIN registry : ~LoadFails(units[registry[k]])
    /\ last.err.kind = "none" =>
         /\ last.tried = {registry[k] : k \in DOMAIN registry}
         /\ \A k \in DOMAIN registry : units[registry[k]].t.ok
    /\ last.err.kind # "none" =>
         \E m \in DOMAIN registry :
            /\ last.unit = registry[m]
            /\ \A k \in 1..(m - 1) : ~LoadFails(units[registry[k]])
            /\ last.tried = {registry[k] : k \in 1..m}
            /\ last.err.kind = IF NoBase(units[registry[m]]) THEN "nobase"
                               ELSE FirstFailure(units[registry[m]])
            /\ last.err.te
            /\ last.err.base = units[registry[m]].ctx.base
            /\ last.err.with = units[registry[m]].ctx.with
            /\ last.err.use = LookupOf(units[registry[m]])

\* a LoadTemplates call leaves alone every unit after the failing one
LoadTemplatesStops ==
  (last'.op = "LoadTemplates" /\ last' # last) =>
    \A i \in DOMAIN units : i \notin last'.tried => units'[i] = units[i]

\* C6: LoadTemplates loads the registered units in registration order, stops
\* at the first unit whose Load fails and returns that failure with the
\* unit's base patterns, extra patterns and lookup pattern; no unit after it
\* is loaded by the call; it returns nil only if every unit's Load succeeded.
C6_LoadTemplatesFailFast ==
  [](LoadTemplatesResult) /\ [][LoadTemplatesStops]_vars

\* LoadTemplates stopped at the first of two units; the second, which would
\* have loaded, has no engine
C6_StoppedAtFirst ==
  /\ LastLoadTemplates
  /\ Len(registry) = 2
  /\ last.unit = registry[1]
  /\ last.tried = {registry[1]}
  /\ ~LoadFails(units[registry[2]])
  /\ ~units[registry[2]].t.ok

\* C7: a LoadTemplates call that follows a LoadTemplates call, with nothing
\* done in between, returns what the first returned: the same outcome, the
\* same failing unit, the same error.
C7_LoadTemplatesIdempotent ==
  [][(last'.op = "LoadTemplates" /\ last'.again /\ last' # last) =>
       /\ last.op = "LoadTemplates"
       /\ last'.err = last.err
       /\ last'.unit = last.unit
       /\ last'.tried = last.tried]_vars

\* a second LoadTemplates call in a row failed on a trial execution
C7_FailedTwice ==
  /\ LastLoadTemplates
  /\ last.again
  /\ last.err.kind = "exec"

\* C8: every Render of a base-wrapped unit passes as base data the value the
\* most recent SetBaseData on a context sharing the unit's cell has set, and
\* a healthy sink receives that value.
C8_BaseDataVisible ==
  (LastRender /\ units[last.unit].wrap) =>
    /\ last.data[<<"B", "Title">>] = cells[units[last.unit].cell]
    /\ (last.sink = "nil" /\ last.calls > 0 /\ last.loadErr = "none") =>
         \E k \in DOMAIN last.written :
            last.written[k] = cells[units[last.unit].cell]

\* a loaded page was rendered, with no reload, after SetBaseData had replaced
\* the value the context was created with
C8_RenderedNewValue ==
  /\ LastRender
  /\ units[last.unit].wrap
  /\ ~last.live
  /\ last.sink = "nil"
  /\ cells[units[last.unit].cell] = "1"
  /\ last.calls > 0
  /\ last.written[1] = "1"

\* a sub-template of a context whose only pattern is p2, looking up p1
LooksUpOneInTwo(u) ==
  /\ ~u.wrap
  /\ u.ctx.base = <<PTwo>>
  /\ u.ctx.with = <<>>
  /\ u.usePattern = "p1"

SubOnCopyFails ==
  (LastLoad /\ LooksUpOneInTwo(units[last.unit])) => last.err.kind # "none"

\* a step that gives an existing context new base patterns changes that
\* context alone
SetBaseTemplatesLocal ==
  (Len(ctxs') = Len(ctxs) /\ ctxs' # ctxs) =>
    /\ Cardinality({k \in DOMAIN ctxs : ctxs'[k] # ctxs[k]}) = 1
    /\ units' = units
    /\ cells' = cells

\* C9: SetBaseTemplates(p2) on a copy C of a context B with base pattern p1
\* leaves B's pattern lists, and the units built, as they were, and a
\* sub-template built on C that looks up p1 fails Load.
C9_CopyIndependent ==
  [](SubOnCopyFails) /\ [][SetBaseTemplatesLocal]_vars

\* B still has p1, its copy C has p2, and the sub-template on C failed Load
C9_CopyDiverged ==
  /\ \E b \in DOMAIN ctxs, c \in DOMAIN ctxs :
        /\ b # c
        /\ ctxs[b].cell = ctxs[c].cell
        /\ ctxs[b].core.base = <<POne>>
        /\ ctxs[c].core.base = <<PTwo>>
  /\ LastLoad
  /\ LooksUpOneInTwo(units[last.unit])
  /\ last.err.kind = "exec"

\* C10: a sink error makes Render panic if and only if it is one of the three
\* protocol errors; with any other sink error Render returns, the sink
\* having been called.
C10_SinkErrorsClassified ==
  (LastRender /\ last.sink # "nil" /\ last.calls > 0) =>
    /\ last.sink \in ProtocolErrors => last.panic = "sink"
    /\ last.sink \notin ProtocolErrors => last.panic # "sink"

\* C11: with live reload off, a Render in which the cached engine's
\* execution reports a failure of its own (not an error of the sink) ends in
\* a panic: the failure is never discarded.
C11_ExecFailureEscalates ==
  (LastRender /\ ~last.live /\ last.exec = "exec") => last.panic # "none"

\* C12: with live reload on, a Render whose reload fails calls the error
\* hook with that error, gives the sink the reload script and nothing else
\* in one Write, and returns normally, also when the sink's Write fails with
\* a transport error.
C12_FailedReloadServesScript ==
  (LastRender /\ last.live /\ last.loadErr # "none") =>
    /\ hLast = HandlerCall(NoEvent, last.loadErr, seenEv)
    /\ last.calls = 1
    /\ last.sink = "nil" => last.written = jsToInject
    /\ last.sink \notin ProtocolErrors => last.panic = "none"

\* the output a Render call's engine produces for its data, before any
\* injection
Uninjected ==
  Join(ExecuteTemplate(units[last.unit].t, units[last.unit].usePattern,
                       last.data).out)

\* the places of the closing body marker, in either case, in an output
Markers(html) == {i \in DOMAIN html : html[i] \in {"</body>", "</BODY>"}}

\* a live Render that reloaded, executed and wrote to a healthy sink
LiveRendered ==
  /\ LastRender
  /\ last.live
  /\ last.loadErr = "none"
  /\ last.exec = "nil"
  /\ last.sink = "nil"

\* C13: with live reload on and a reload that succeeded, an output that
\* holds the closing body marker reaches the sink as prefix + script +
\* suffix, split at the start of the marker's last occurrence in the
\* original output, prefix and suffix being the un-injected output's.
C13_ScriptBeforeLastMarker ==
  (LiveRendered /\ Markers(Uninjected) # {}) =>
    \E i \in Markers(Uninjected) :
       /\ \A j \in Markers(Uninjected) : j <= i
       /\ last.written = SubSeq(Uninjected, 1, i - 1) \o jsToInject
                           \o SubSeq(Uninjected, i, Len(Uninjected))

\* C14: with live reload on and a reload that succeeded, an output without
\* the closing body marker reaches the sink with the reload script appended
\* at its end.
C14_ScriptAppended ==
  (LiveRendered /\ Markers(Uninjected) = {}) =>
    last.written = Uninjected \o jsToInject

\* what was written, the tokens of the reload script left out
WithoutScript(written) ==
  SelectSeq(written, LAMBDA tok : \A k \in DOMAIN jsToInject :
                                    jsToInject[k] # tok)

\* a Render step in live mode leaves the unit with the engine parsed from
\* the files as they are now, and what it wrote comes from that engine; a
\* Render step in production leaves the unit as it was and wrote what the
\* cached engine produces.  units is the state before the call, last' and
\* units' the state after it.
RenderReloads ==
  last'.op = "Render" =>
    LET u == units[last'.unit]
        v == units'[last'.unit]
    IN IF last'.live
       THEN /\ v.t = ParseFS(fs, PatternsOf(u))
            /\ last'.loadErr = "parse" <=> ~v.t.ok
            /\ last'.loadErr # "none" => last'.written = jsToInject
            /\ (last'.loadErr = "none" /\ last'.exec = "nil") =>
                 WithoutScript(last'.written)
                   = Join(ExecuteTemplate(v.t, v.usePattern, last'.data).out)
       ELSE /\ v = u
            /\ last'.loadErr = "none"
            /\ u.t.ok =>
                 last'.written
                   = Join(ExecuteTemplate(u.t, u.usePattern, last'.data).out)

\* C15: with live reload on, every Render runs the load step (parse and
\* trial execution) before it writes, whether or not a file changed since
\* the last Render; with live reload off, Render never parses and executes
\* the engine the last Load cached.
C15_RenderReloadsWhenLive == [][RenderReloads]_vars

\* a live Render wrote the edited page
C15_EditSeenWithoutLoad ==
  /\ LiveRendered
  /\ fs = "edited"
  /\ Len(last.written) > 0
  /\ Head(last.written) = Head(KelvinSign)

\* the endpoint handlers that have subscribed and not yet returned
InHandler == {c \in Clients : epc[c] \in {"subscribed", "loop", "return"}}

\* C16: the subscriber set is exactly the set of channels of the endpoint
\* handlers that have subscribed and not yet returned: a handler that
\* returned, after a disconnect or after shutdown, has removed its channel.
C16_SubscribersAreHandlers == clientsRegister = InHandler

\* after shutdown one handler has returned and is unsubscribed while another
\* is still in its loop
C16_OneReturnedOneConnected ==
  /\ ctxDone
  /\ \E c \in Clients : epc[c] = "done" /\ c \notin clientsRegister
  /\ \E c \in Clients : epc[c] = "loop" /\ c \in clientsRegister

\* C17: once the shared context is cancelled, the watcher loop leaves its
\* loop, and every endpoint handler that is connected then, or connects
\* later, returns and removes its channel from the subscriber set.
C17_CooperativeShutdown ==
  /\ (ctxDone /\ wpc = "run") ~> (wpc = "done")
  /\ \A c \in Clients :
       (ctxDone /\ c \in InHandler) ~> (epc[c] = "done" /\ c \notin clientsRegister)

\* after the cancellation the watcher has left its loop and both endpoints
\* have returned and unsubscribed
C17_AllLeft ==
  /\ ctxDone
  /\ wpc = "done"
  /\ \A c \in Clients : epc[c] = "done"
  /\ clientsRegister = {}

\* C18: the first interrupt after live reload started goes into the
\* goroutine's channel; the goroutine cancels the watcher context before the
\* interception is removed and removes it before it sends the signal to the
\* process again, so that signal and every interrupt after it reach the
\* default handler; no interrupt is intercepted once the interception is
\* removed.
FirstIntercepted ==
  (signals' = signals + 1 /\ spc = 1 /\ sigq = 0) => sigLast'.to = "chan"
LaterDefaulted ==
  (signals' = signals + 1 /\ spc = InterruptDone) =>
    /\ sigLast'.to = "default"
    /\ defaulted' = defaulted + 1
    /\ UNCHANGED <<sigq, spc, ctxDone>>
ReceivedOnce ==
  sigq' < sigq => (spc' = spc + 1 /\ spc' <= InterruptDone)
C18_InterruptOnce ==
  /\ []((spc > 1 /\ ~notify) => ctxDone)
  /\ [](sigLast.from = "self" =>
         (sigLast.to = "default" /\ ctxDone /\ ~notify /\ spc = InterruptDone))
  /\ [][FirstIntercepted /\ LaterDefaulted /\ ReceivedOnce]_vars
C18_SecondInterruptDefaulted ==
  /\ spc = InterruptDone
  /\ signals = 2
  /\ defaulted = 2
  /\ sigLast = [from |-> "os", to |-> "default"]
  /\ runCalls = 1

\* C19: a constructor step appends the new unit's one entry to the registry,
\* gives the unit the empty engine and leaves the files and the other units
\* as they were; a unit's engine changes only in a step that loads it (Load,
\* LoadTemplates, or a Render in live mode, which reloads the unit first);
\* the registry lists the units in the order of their construction.
Constructs ==
  Len(units') # Len(units) =>
    /\ Len(units') = Len(units) + 1
    /\ registry' = Append(registry, Len(units'))
    /\ units'[Len(units')].t = NilEngine
    /\ \A i \in DOMAIN units : units'[i] = units[i]
    /\ fs' = fs
EngineSetByLoad ==
  \A i \in DOMAIN units :
     units'[i].t # units[i].t =>
       \/ last'.op = "Load" /\ last'.unit = i
       \/ last'.op = "LoadTemplates" /\ i \in last'.tried
       \/ last'.op = "Render" /\ last'.unit = i /\ last'.live
C19_LazyConstruction ==
  /\ [](registry = [i \in 1..Len(units) |-> i])
  /\ [][Constructs /\ EngineSetByLoad]_vars
C19_BuiltAfterLoad ==
  /\ last.op = "New"
  /\ last.unit = 2
  /\ units[1].t.ok
  /\ ~units[2].wrap
  /\ units[2].t = NilEngine
  /\ registry = <<1, 2>>

\* C20: after Load of a page, the lookup pattern is the last path element
\* of the first base pattern ("in" for views/in), whatever the load then
\* returns; a page whose context has no base pattern fails with
\* ErrNoBasePatternFound, also with extra patterns and a failing hook, and
\* the Load step leaves the unit without lookup pattern and engine.
LoadedPage == LastLoad /\ units[last.unit].wrap /\ units[last.unit].tc = 0
PageLoadWithoutBase ==
  (last'.op = "Load" /\ units[last'.unit].wrap
     /\ Len(units[last'.unit].ctx.base) = 0) => units' = units
FullChannelKept ==
  bLast'.n # bLast.n =>
    \A c \in Clients : chan[c] # <<>> => chan'[c] = chan[c]
C21_AtMostOnePending ==
  /\ [](\A c \in Clients : Len(chan[c]) <= 1)
  /\ [][FullChannelKept]_vars
C21_ErrorSkippedOverReload ==
  /\ bLast.msg = MsgError
  /\ "A" \in bLast.skipped
  /\ chan["A"] = <<MsgReload>>
  /\ epc["A"] = "loop"
  /\ epc["B"] = "done"


\* C22: a message that a broadcast did not send to a subscriber is the same
\* as the message waiting in that subscriber's channel.
C22_OnlyDuplicatesDropped ==
  \A c \in bLast.skipped : chan[c] # <<>> => Head(chan[c]) = bLast.msg


\* the name ends in ".go"
EndsInGo(name) ==
  /\ Len(name) >= 3
  /\ SubSeq(name, Len(name) - 2, Len(name)) = <<".", "g", "o">>

\* C23: whatever the length of its name, the event the loop received last
\* was ignored (it is not the last event the loop went on to handle) exactly
\* if its name ends in ".go", and the loop has not died of it.
C23_OnlyGoFilesIgnored ==
  inEv # NoEvent =>
    /\ wpc # "panic"
    /\ EndsInGo(inEv.name) <=> seenEv # inEv


\* the loop takes an event in this step
EventStep == nEvents' = nEvents + 1 /\ bLast' = bLast /\ wpc' # "err"
CreatesDir(e) == e.op = "Create" /\ e.stat = "dir"

DirWatchedAtOnce ==
  (EventStep /\ CreatesDir(inEv') /\ Len(inEv'.name) >= Len(goType)) =>
     IF inEv'.name[1] # "."
     THEN /\ ({inEv'.name} \cup DirsBelow(inEv'.name)) \subseteq watched'
          /\ fired' = fired
     ELSE watched' = watched
C25_DirCreationArmsNoTimer ==
  /\ ~CreatesDir(lastEv)
  /\ \A t \in timers : ~CreatesDir(t.ev)
  /\ TimerCalledHandler => ~CreatesDir(hLast.ev)

\* C25, amended: an event with a name of three bytes or more leaves the
\* timer alone if its name ends in ".go" or if it is a Create whose os.Stat
\* fails; every other event, the creation of a directory included, stops
\* the armed timer and arms the one timer that will call the handler with
\* this event.
TimerResetByEvent ==
  (EventStep /\ Len(inEv'.name) >= Len(goType)) =>
     IF EndsInGo(inEv'.name) \/ (inEv'.op = "Create" /\ inEv'.stat = "err")
     THEN timers' = timers /\ batchTimer' = batchTimer
     ELSE /\ batchTimer' # batchTimer
          /\ timers' = {[id |-> batchTimer', ev |-> inEv', left |-> BatchDelay]}
C25_DirCreationResetsTimer ==
  /\ [][TimerResetByEvent]_vars
  /\ [][timers' \subseteq timers \/ EventStep \/ \E d \in TickSteps :
          timers' = {[t EXCEPT !.left = Max(0, t.left - d)] : t \in timers}]_vars
C25_ReloadedForNewDir ==
  /\ nEvents = 1
  /\ inEv = Event(ViewDir, "Create", "dir")
  /\ ViewDir \in watched
  /\ hLast.ev = inEv
  /\ reloads = 1
  /\ bLast.msg = MsgReload


\* C26: a firing timer calls the handler with its event and leaves the
\* broadcasts alone; the reload is broadcast in a later step of a callback
\* that has called the handler, with no further handler call, and there is
\* one call and one broadcast for each firing.  On a watcher error the
\* handler is called with the error and no event, then the error frame is
\* broadcast, and neither step touches the timers.
HandlerThenReload ==
  /\ fired' # fired =>
       /\ fired' = fired + 1
       /\ \E t \in timers :
            /\ t.left = 0
            /\ timers' = timers \ {t}
            /\ running' = running \cup {t.id}
            /\ hLast'.ev = t.ev
            /\ hLast'.err = "none"
       /\ UNCHANGED <<reloads, bLast>>
  /\ reloads' # reloads =>
       /\ reloads' = reloads + 1
       /\ \E id \in running : running' = running \ {id}
       /\ bLast'.msg = MsgReload
       /\ bLast'.n = bLast.n + 1
       /\ UNCHANGED <<fired, hLast>>
ErrorAtOnce ==
  /\ (wpc' = "err" /\ wpc # "err") =>
       /\ wpc = "run"
       /\ hLast'.ev = NoEvent
       /\ hLast'.err = "watcher"
       /\ UNCHANGED <<timers, batchTimer, running, fired, reloads, bLast>>
  /\ (bLast' # bLast /\ bLast'.msg = MsgError) =>
       /\ wpc = "err"
       /\ wpc' = "run"
       /\ bLast'.n = bLast.n + 1
       /\ UNCHANGED <<timers, batchTimer, running, fired, reloads, hLast>>
C26_HandlerBeforeBroadcast ==
  /\ [](reloads + Cardinality(running) = fired)
  /\ [][HandlerThenReload /\ ErrorAtOnce]_vars
C26_ErrorCalledTimerPending ==
  /\ wpc = "err"
  /\ hLast.err = "watcher"
  /\ bLast.n = 0
  /\ Cardinality(timers) = 1
  /\ \A t \in timers : t.left < BatchDelay


\* C27: a client that has not subscribed has received nothing; a frame is
\* written only to a registered client; the first frame is the running
\* frame and it is written with the channel left as it is, so a message
\* broadcast since the subscription is still there; every later frame is
\* the head of the client's channel, taken off it in the same step, and a
\* handler in its loop can always take a waiting message.
FramesInOrder ==
  \A c \in Clients :
     recv'[c] # recv[c] =>
       /\ c \in clientsRegister
       /\ IF recv[c] = <<>>
          THEN /\ epc[c] = "subscribed"
               /\ recv'[c] = <<MsgRunning>>
               /\ chan'[c] = chan[c]
          ELSE /\ chan[c] # <<>>
               /\ recv'[c] = Append(recv[c], Head(chan[c]))
               /\ chan'[c] = Tail(chan[c])
C27_RunningFrameFirst ==
  /\ [](\A c \in Clients :
          /\ epc[c] \in {"idle", "subscribed"} => recv[c] = <<>>
          /\ recv[c] # <<>> => Head(recv[c]) = MsgRunning
          /\ \A i \in 2..Len(recv[c]) : recv[c][i] \in {MsgReload, MsgError}
          /\ (Alive /\ epc[c] = "loop" /\ chan[c] # <<>>) => ENABLED Forward(c))
  /\ [][FramesInOrder]_vars
C27_BroadcastBeforeFirstWrite ==
  /\ epc["A"] = "subscribed"
  /\ recv["A"] = <<>>
  /\ chan["A"] = <<MsgReload>>
  /\ bLast.n = 1
  /\ bLast.skipped = {}


\* C28: a step of a goroutine in a live Render changes no unit but its own,
\* and the engine it executes is what its own unit's field held at that
\* step; a goroutine that executed an engine other than the one it parsed,
\* or found the field nil after its own successful parse, shared its unit
\* with another goroutine that had gone through load.  That such a state is
\* reachable is what C28_ExecutedForeignEngine shows.
UnitsApart ==
  \A w \in Workers :
     workers'[w] # workers[w] =>
       /\ DOMAIN units' = DOMAIN units
       /\ \A j \in DOMAIN units :
            j # workers'[w].unit => units'[j] = units[j]
       /\ workers'[w].ran # workers[w].ran =>
            workers'[w].ran = units[workers[w].unit].t
SharedUnit(w) ==
  \E v \in Workers \ {w} :
     /\ workers[v].unit = workers[w].unit
     /\ workers[v].pc \notin {"idle", "load"}
C28_RaceOnSameUnitOnly ==
  /\ [][UnitsApart]_vars
  /\ [](\A w \in Workers :
          (workers[w].pc = "panic"
             \/ (workers[w].pc = "done" /\ workers[w].ran # workers[w].own))
          => SharedUnit(w))
C28_ExecutedForeignEngine ==
  /\ workers["w1"].pc = "done"
  /\ workers["w1"].own.ok
  /\ workers["w1"].ran # workers["w1"].own
  /\ workers["w2"].unit = workers["w1"].unit
  /\ Len(units) = 2


\* C29: after a Load that returned an error the unit holds the engine it
\* held before the call (last.was).
C29_FailedLoadKeepsEngine ==
  (LastLoad /\ last.err.kind # "none") => units[last.unit].t = last.was


\* a step that changes the registry's live-reload flag
FlagSetLast ==
  liveReload' # liveReload =>
    /\ liveReload'
    /\ runCalls' = runCalls + 1
    /\ runRet'.err = "none" /\ runRet'.handler
    /\ customReloadHandler' # "unset" /\ jsToInject' # NoScript

\* the last operation was a Render in live mode whose reload failed
LiveRenderNotified == LastRender /\ last.live /\ last.loadErr # "none"

\* C30: whenever the live-reload flag is true a reload handler is configured
\* and the script to inject is set; the flag changes only in a RunLiveReload
\* call that returns the handler without an error, and never back; a Render
\* in live mode that reports a failed reload finds the hook set.
C30_FlagImpliesHandlerAndScript ==
  /\ [](liveReload => customReloadHandler # "unset" /\ jsToInject # NoScript)
  /\ [][FlagSetLast]_vars
  /\ [](LiveRenderNotified =>
          customReloadHandler # "unset" /\ hLast.err = last.loadErr)

\* the flag is on after a successful call with a handler of the caller and
\* a Render in live mode reported its failed reload to that handler
C30_LiveRenderCalledHook ==
  /\ liveReload /\ runRet.err = "none"
  /\ LiveRenderNotified
  /\ customReloadHandler = "user"
  /\ hLast.err = last.loadErr


\* a step that is a call of RunLiveReload
RunCalled == runCalls' = runCalls + 1

\* the first call of RunLiveReload returned an error
FirstCallFailed == liveServerStarted /\ ~liveReload

\* a call sets liveServerStarted whatever it returns, and no step clears it
StartedSticks ==
  /\ liveServerStarted => liveServerStarted'
  /\ RunCalled => liveServerStarted'

\* a call after a failed first call
RejectedAfterFailure ==
  (FirstCallFailed /\ RunCalled) =>
    /\ runRet' = [err |-> "already running", handler |-> FALSE]
    /\ wpc' = "none" /\ ~liveReload' /\ ~notify'
    /\ UNCHANGED <<customReloadHandler, jsToInject, watched>>

\* C31: a call of RunLiveReload sets liveServerStarted whatever it returns
\* and nothing clears it; after a first call that failed no watcher loop
\* runs, the live-reload flag stays false, and every later call returns the
\* already-running error and starts nothing.
C31_StartedNeverCleared ==
  /\ [][StartedSticks]_vars
  /\ [][RejectedAfterFailure]_vars
  /\ [](FirstCallFailed => wpc = "none" /\ runCalls >= 1)
  /\ [][FirstCallFailed => FirstCallFailed']_vars

\* the first call failed and the second was rejected
C31_RejectedAfterFailedStart ==
  /\ FirstCallFailed
  /\ runCalls = 2
  /\ runRet.err = "already running"
  /\ wpc = "none"


\* a step that is a Render while the registry's live-reload flag is off
ProductionRender ==
  /\ ~liveReload
  /\ \E pkg \in Packages, i \in DOMAIN units, sink \in Sinks :
       \E d \in ValuesOfType(units[i].data) : Render(pkg, i, d, sink)

\* C32: a Render with live reload disabled changes nothing but its own
\* output: the units (engine, lookup pattern, sample data), the contexts and
\* their base data, the registry, the files, the subscribers and everything
\* of the live reload engine are after the step what they were before it.
C32_ProductionRenderReadsOnly ==
  [][ProductionRender =>
       UNCHANGED <<units, ctxs, cells, registry, fs, clientvars, regvars,
                   livevars>>]_vars

\* a loaded unit was rendered in production after its files had changed, and
\* still holds the engine of its last Load
C32_RenderedStaleEngine ==
  /\ LastRender /\ ~last.live
  /\ last.panic = "none" /\ last.written # <<>>
  /\ units[last.unit].t.ok
  /\ units[last.unit].t # load(units[last.unit], last.data).unit.t


\* a step after the return of runWatcher calls no handler and broadcasts
\* nothing
QuietAfterExit ==
  wpc = "done" =>
    /\ fired' = fired /\ hLast' = hLast
    /\ reloads' = reloads /\ bLast' = bLast

\* C33: once runWatcher has returned, on the cancellation or on the closed
\* event stream, the change handler is not called and no reload is
\* broadcast any more: a timer armed before the return does not fire.
C33_NothingAfterLoopExit == [][QuietAfterExit]_vars

============================================================================
